---- MODULE Spec2Model ----
(***************************************************************************)
(* Verification model of the NativeMergeTree experiment: the merge tree    *)
(* (MergeTree.h), its partial-length vectors (PartialLengths.h), the       *)
(* sequence/position types (Seq.h) and the two reference routers           *)
(* (Router.h).                                                             *)
(*                                                                         *)
(* Encodings.                                                              *)
(*  - A C++ pointer is a node id (a positive integer); nullptr is 0.       *)
(*  - std::array<_, N> is a sequence of length N; the source's zero-based  *)
(*    index i is element i + 1 (see At / SetAt).                           *)
(*  - A uint32_t is held as the two's-complement integer with the same bit *)
(*    pattern, so 2^32 - 1 is -1 and unsigned order is ULess. Sums stay    *)
(*    far from 2^31 in every run, so + is the wrapping sum.                *)
(*  - A shared_ptr<Edit> is an edit id, a key of the tree's edit store;    *)
(*    an Edit is destroyed when it leaves both queues, and a weak_ptr to a *)
(*    destroyed Edit locks to 0.                                           *)
(*  - A failed assert() aborts the process: the tree's failed field names  *)
(*    the assertion and every later step leaves the tree alone.            *)
(***************************************************************************)
EXTENDS Integers, Sequences, FiniteSets, TLC

(***************************************************************************)
(* Program constants                                                       *)
(***************************************************************************)
BlockSize == 32

MaxNodesInBlock == BlockSize

IdealNodesInBlock == (MaxNodesInBlock * 3) \div 4

MaxDepthImbalance == 2

lengthNil == -1

ClientSeqFirst == 1000

SeqUniversal == 0

CpInvalid == -1

LoopbackClientId == 7

MultiClientIdBase == 10

MultiRouterFirstSeq == 1

(***************************************************************************)
(* Helpers for the encodings                                               *)
(***************************************************************************)
At(s, i) == s[i + 1]

SetAt(s, i, v) == [s EXCEPT ![i + 1] = v]

ULess(a, b) == IF (a < 0) = (b < 0) THEN a < b ELSE b < 0

ULessEq(a, b) == a = b \/ ULess(a, b)

ToInt8(x) == ((x + 128) % 256) - 128

Max2(a, b) == IF a > b THEN a ELSE b

Min2(a, b) == IF a < b THEN a ELSE b

SubSeqFrom(s, i) == SubSeq(s, i + 1, Len(s))

SubSeqTo(s, i) == SubSeq(s, 1, i)

(***************************************************************************)
(* CpAdjustCp (MergeTree.h)                                                *)
(***************************************************************************)
\* CpAdjustCp without the stickiness: a position at the start of an insertion
\* always moves behind it.
CpAdjustCpAlwaysRight(cp, adj, stick) ==
    IF cp < adj.cp \/ adj.dcp = 0
    THEN cp
    ELSE IF adj.dcp < 0
         THEN IF cp > adj.cp - adj.dcp
              THEN cp + adj.dcp
              ELSE adj.cp
         ELSE cp + adj.dcp

\* CpAdjustCp leaving the positions inside a removed range where they are.
CpAdjustCpNoCollapse(cp, adj, stick) ==
    IF cp < adj.cp \/ adj.dcp = 0
    THEN cp
    ELSE IF adj.dcp < 0
         THEN IF cp > adj.cp - adj.dcp
              THEN cp + adj.dcp
              ELSE cp
         ELSE IF cp > adj.cp
              THEN cp + adj.dcp
              ELSE IF stick = "Right"
                   THEN cp + adj.dcp
                   ELSE cp

CpAdjustCp(cp, adj, stick) ==
    IF cp < adj.cp \/ adj.dcp = 0
    THEN cp
    ELSE IF adj.dcp < 0
         THEN IF cp > adj.cp - adj.dcp
              THEN cp + adj.dcp
              ELSE adj.cp
         ELSE IF cp > adj.cp
              THEN cp + adj.dcp
              ELSE IF stick = "Right"
                   THEN cp + adj.dcp
                   ELSE cp

(***************************************************************************)
(* TPartialLengths<BlockSize> (PartialLengths.h)                           *)
(***************************************************************************)
EmptyLengths ==
    [count |-> 0, lengths |-> [i \in 1..BlockSize |-> lengthNil]]

LengthsFromRange(vals) ==
    [count |-> Len(vals),
     lengths |-> [i \in 1..BlockSize |-> IF i <= Len(vals) THEN vals[i] ELSE lengthNil]]

RECURSIVE UpperBound(_, _, _, _)
UpperBound(arr, val, first, len) ==
    IF len <= 0
    THEN first
    ELSE LET half == len \div 2
             mid == first + half
         IN IF ULess(val, At(arr, mid))
            THEN UpperBound(arr, val, first, half)
            ELSE UpperBound(arr, val, mid + 1, len - half - 1)

\* Find without the rebasing of the offset on the entry to the left.
PLFindUnrebased(pl, offset) ==
    LET it == UpperBound(pl.lengths, offset, 0, BlockSize)
    IN IF ~ULessEq(offset, At(pl.lengths, BlockSize - 1))
       THEN [ok |-> FALSE, index |-> 0, offset |-> 0]
       ELSE [ok |-> TRUE, index |-> it, offset |-> offset]

PLFind(pl, offset) ==
    LET it == UpperBound(pl.lengths, offset, 0, BlockSize)
    IN IF ~ULessEq(offset, At(pl.lengths, BlockSize - 1))
       THEN [ok |-> FALSE, index |-> 0, offset |-> 0]
       ELSE IF it = 0
            THEN [ok |-> TRUE, index |-> 0, offset |-> offset]
            ELSE [ok |-> TRUE, index |-> it, offset |-> offset - At(pl.lengths, it - 1)]

TotalLength(pl) == At(pl.lengths, pl.count - 1)

InsertColumn(pl, index) ==
    [count |-> pl.count + 1,
     lengths |-> [i \in 1..BlockSize |->
                    LET k == i - 1
                    IN IF k < index THEN pl.lengths[i]
                       ELSE IF k = index
                            THEN (IF index = 0 THEN 0 ELSE At(pl.lengths, index - 1))
                            ELSE At(pl.lengths, k - 1)]]

PLUpdate(pl, index, length) ==
    LET nils == {k \in index..(BlockSize - 1) : At(pl.lengths, k) = lengthNil}
        stop == IF nils = {} THEN BlockSize
                ELSE CHOOSE k \in nils : \A j \in nils : k <= j
    IN [pl EXCEPT !.lengths =
            [i \in 1..BlockSize |->
                IF i - 1 >= index /\ i - 1 < stop
                THEN pl.lengths[i] + length
                ELSE pl.lengths[i]]]

SplitColumn(pl, index, length) ==
    LET ins == InsertColumn(pl, index + 1)
    IN [ins EXCEPT !.lengths = SetAt(ins.lengths, index, At(ins.lengths, index) - length)]

(***************************************************************************)
(* Nodes: Segment and MergeBlock (MergeTree.h). A tree value T is the      *)
(* MergeTree object together with the heap of nodes and Edits it owns.     *)
(***************************************************************************)
Fail(T, why) == IF T.failed = "" THEN [T EXCEPT !.failed = why] ELSE T

NoStats == [depthMin |-> 0, depthMax |-> 0, cDeadSegments |-> 0]

NullChildren == [i \in 1..MaxNodesInBlock |-> 0]

TextSegment(text, ed) ==
    [isLeaf |-> TRUE, parent |-> 0, index |-> -1, text |-> text, length |-> Len(text),
     isDead |-> FALSE, edAdded |-> ed, edRemoved |-> 0]

MergeBlock ==
    [isLeaf |-> FALSE, parent |-> 0, index |-> -1, children |-> NullChildren,
     lengths |-> EmptyLengths, stats |-> NoStats]

ChildCount(b) == b.lengths.count

isFull(b) == ChildCount(b) = MaxNodesInBlock

IsUnbalanced(b) == (b.stats.depthMax - b.stats.depthMin) > MaxDepthImbalance

Lock(T, e) == IF e \in DOMAIN T.edits THEN e ELSE 0

IsRemoved(T, seg) == Lock(T, seg.edRemoved) # 0

RECURSIVE PrefixSums(_, _)
PrefixSums(vals, acc) ==
    IF vals = <<>> THEN <<>>
    ELSE <<acc + Head(vals)>> \o PrefixSums(Tail(vals), acc + Head(vals))

recomputeLengthsSlow(T, b) ==
    LET childCount == MaxNodesInBlock - Cardinality({i \in 1..MaxNodesInBlock : b.children[i] = 0})
        len(i) == LET child == T.heap[b.children[i]]
                  IN IF child.isLeaf
                     THEN (IF ~IsRemoved(T, child) /\ ~child.isDead THEN child.length ELSE 0)
                     ELSE TotalLength(child.lengths)
    IN IF childCount = 0
       THEN EmptyLengths
       ELSE LengthsFromRange(PrefixSums([i \in 1..childCount |-> len(i)], 0))

SetMin(S) == CHOOSE x \in S : \A y \in S : x <= y

SetMax(S) == CHOOSE x \in S : \A y \in S : x >= y

RECURSIVE SumSeq(_)
SumSeq(s) == IF s = <<>> THEN 0 ELSE Head(s) + SumSeq(Tail(s))

\* Reads children[0]->isLeaf first: the caller rules out a null children[0].
recomputeStatsSlow(T, b) ==
    LET n == ChildCount(b)
        kid(i) == T.heap[b.children[i]]
        first == T.heap[At(b.children, 0)]
        raw ==
            IF ~first.isLeaf
            THEN [depthMin |-> SetMin({ToInt8(first.stats.depthMin + 1)}
                                      \cup {ToInt8(kid(i).stats.depthMin + 1) : i \in 1..n}),
                  depthMax |-> SetMax({0} \cup {ToInt8(kid(i).stats.depthMax + 1) : i \in 1..n}),
                  cDeadSegments |-> ToInt8(SumSeq([i \in 1..n |-> kid(i).stats.cDeadSegments]))]
            ELSE [depthMin |-> 1,
                  depthMax |-> 1,
                  cDeadSegments |-> ToInt8(Cardinality({i \in 1..n : kid(i).isDead}))]
        s1 == IF n = 0 THEN [raw EXCEPT !.depthMax = 0] ELSE raw
    IN IF n < IdealNodesInBlock THEN [s1 EXCEPT !.depthMin = 0] ELSE s1

\* lengths = recomputeLengthsSlow() in block b.
StoreLengths(T, b) == [T EXCEPT !.heap[b].lengths = recomputeLengthsSlow(T, T.heap[b])]

\* stats = recomputeStatsSlow() in block b.
StoreStats(T, b) == [T EXCEPT !.heap[b].stats = recomputeStatsSlow(T, T.heap[b])]

RECURSIVE updateParentLengths(_, _, _)
updateParentLengths(heap, node, length) ==
    LET parent == heap[node].parent
    IN IF parent = 0
       THEN heap
       ELSE updateParentLengths(
                [heap EXCEPT ![parent].lengths = PLUpdate(@, heap[node].index, length)],
                parent, length)

\* MergeBlock(TIter b, TIter e): a new block at id `id` over the nodes `nodes`.
ConstructBlock(T, id, nodes) ==
    IF T.failed # "" THEN T
    ELSE IF Len(nodes) > MaxNodesInBlock THEN Fail(T, "assert: (e - b) <= MaxNodesInBlock")
    ELSE IF \E i \in 1..Len(nodes) : nodes[i] = 0 THEN Fail(T, "null dereference in MergeBlock(b, e)")
    ELSE IF \E i \in 2..Len(nodes) : T.heap[nodes[i - 1]].isLeaf # T.heap[nodes[i]].isLeaf
         THEN Fail(T, "assert: children[i - 1]->isLeaf == children[i]->isLeaf")
    ELSE IF nodes = <<>> THEN Fail(T, "null dereference in recomputeStatsSlow")
    ELSE
    LET pos(n) == CHOOSE i \in 1..Len(nodes) : nodes[i] = n
        members == {nodes[i] : i \in 1..Len(nodes)}
        blank == [MergeBlock EXCEPT
                    !.children = [i \in 1..MaxNodesInBlock |->
                                    IF i <= Len(nodes) THEN nodes[i] ELSE 0]]
        heap1 == [n \in DOMAIN T.heap \cup {id} |->
                    IF n = id THEN blank
                    ELSE IF n \in members
                         THEN [T.heap[n] EXCEPT !.parent = id, !.index = pos(n) - 1]
                         ELSE T.heap[n]]
    IN StoreStats(StoreLengths([T EXCEPT !.heap = heap1], id), id)

adopt(T, b, newNode, childIndex, fWasSplit) ==
    IF T.failed # "" THEN T
    ELSE
    LET blk == T.heap[b]
        iNewLast == ChildCount(blk)
        new == T.heap[newNode]
    IN
    IF childIndex > iNewLast THEN Fail(T, "assert: childIndex <= iNewLast")
    ELSE IF iNewLast >= MaxNodesInBlock THEN Fail(T, "out of bounds: adopt on a full block")
    ELSE IF iNewLast = childIndex /\ At(blk.children, childIndex) # 0
         THEN Fail(T, "assert: children[childIndex] == nullptr")
    ELSE
    LET shifted == {At(blk.children, i - 1) : i \in (childIndex + 1)..iNewLast}
        children1 == [i \in 1..MaxNodesInBlock |->
                        LET k == i - 1
                        IN IF k < childIndex THEN blk.children[i]
                           ELSE IF k = childIndex THEN newNode
                           ELSE IF k <= iNewLast THEN At(blk.children, k - 1)
                           ELSE blk.children[i]]
        st0 == blk.stats
        st1 == IF ~new.isLeaf
               THEN [depthMin |-> IF iNewLast = 0 \/ (new.stats.depthMin + 1) > st0.depthMin
                                  THEN ToInt8(new.stats.depthMin + 1)
                                  ELSE st0.depthMin,
                     depthMax |-> Max2(st0.depthMax, ToInt8(new.stats.depthMax + 1)),
                     cDeadSegments |-> IF ~fWasSplit
                                       THEN ToInt8(st0.cDeadSegments + new.stats.cDeadSegments)
                                       ELSE st0.cDeadSegments]
               ELSE [depthMin |-> 1,
                     depthMax |-> Max2(st0.depthMax, 1),
                     cDeadSegments |-> st0.cDeadSegments]
        st2 == IF iNewLast + 1 < IdealNodesInBlock THEN [st1 EXCEPT !.depthMin = 0] ELSE st1
        heap1 == [n \in DOMAIN T.heap |->
                    IF n = b THEN [blk EXCEPT !.children = children1, !.stats = st2]
                    ELSE IF n = newNode
                         THEN [new EXCEPT !.parent = b, !.index = ToInt8(childIndex)]
                    ELSE IF n \in shifted
                         THEN [T.heap[n] EXCEPT !.index =
                                  CHOOSE k \in (childIndex + 1)..iNewLast : At(children1, k) = n]
                         ELSE T.heap[n]]
        Lengths(T1) ==
            IF ~fWasSplit
            THEN IF new.isLeaf
                 THEN LET pl == PLUpdate(InsertColumn(blk.lengths, childIndex),
                                         childIndex, new.length)
                      IN [T1 EXCEPT !.heap = updateParentLengths(
                                        [T1.heap EXCEPT ![b].lengths = pl], b, new.length)]
                 ELSE IF blk.parent # 0
                      THEN Fail(T1, "assert: parent == nullptr")
                      ELSE StoreLengths(T1, b)
            ELSE IF childIndex <= 0
                 THEN Fail(T1, "assert: childIndex > 0")
                 ELSE IF new.isLeaf
                      THEN [T1 EXCEPT !.heap[b].lengths =
                                SplitColumn(blk.lengths, childIndex - 1, new.length)]
                      ELSE StoreLengths(T1, b)
    IN Lengths([T EXCEPT !.heap = heap1])

\* split, the end: the parent adopts the new block next to this one.
splitAdopt(T, b, newBlock) ==
    IF ~(T.heap[b].index + 1 < MaxNodesInBlock)
    THEN Fail(T, "assert: this->index + 1 < MaxNodesInBlock")
    ELSE adopt(T, T.heap[b].parent, newBlock, T.heap[b].index + 1, TRUE)

\* split, the middle: the lower half stays, its lengths are recomputed by the
\* caller of this step and its stats here.
splitStats(T, b, newBlock) ==
    IF ChildCount(T.heap[b]) # MaxNodesInBlock \div 2
    THEN Fail(T, "assert: split == ChildCount()")
    ELSE splitAdopt(StoreStats(T, b), b, newBlock)

\* split, after the new block took the upper half: the slots are cleared.
splitLower(T, b, newBlock) ==
    IF T.failed # "" THEN T
    ELSE splitStats(
            StoreLengths([T EXCEPT !.heap[b].children =
                            [i \in 1..MaxNodesInBlock |->
                                IF i <= MaxNodesInBlock \div 2 THEN @[i] ELSE 0]],
                         b),
            b, newBlock)

split(T, b) ==
    IF T.failed # "" THEN T
    ELSE IF T.heap[b].parent = 0 THEN Fail(T, "null dereference in split")
    ELSE IF ~(ChildCount(T.heap[T.heap[b].parent]) < MaxNodesInBlock)
         THEN Fail(T, "assert: parent->ChildCount() < MaxNodesInBlock")
    ELSE splitLower(
            ConstructBlock([T EXCEPT !.nextNode = @ + 1], T.nextNode,
                           [i \in 1..(MaxNodesInBlock - MaxNodesInBlock \div 2) |->
                               At(T.heap[b].children, MaxNodesInBlock \div 2 + i - 1)]),
            b, T.nextNode)

\* ensureExtraCapacity on a full root, the end: the block that took the
\* root's children is split.
ensureExtraCapacitySplit(T, b) ==
    IF T.failed # "" THEN T
    ELSE split(T, At(T.heap[b].children, 0))

\* ensureExtraCapacity on a full root: the root is emptied and adopts the
\* block newBlock that took its children.
ensureExtraCapacityRoot(T, b, newBlock) ==
    IF T.failed # "" THEN T
    ELSE ensureExtraCapacitySplit(
            adopt([T EXCEPT !.heap[b].children = NullChildren,
                            !.heap[b].lengths = EmptyLengths,
                            !.heap[b].stats = NoStats],
                  b, newBlock, 0, FALSE),
            b)

RECURSIVE ensureExtraCapacity(_, _, _)
ensureExtraCapacity(T, b, cNew) ==
    IF T.failed # "" THEN T
    ELSE IF cNew > MaxNodesInBlock \div 2 THEN Fail(T, "assert: cNew <= MaxNodesInBlock / 2")
    ELSE IF cNew + ChildCount(T.heap[b]) > MaxNodesInBlock
    THEN IF T.heap[b].parent = 0
         THEN ensureExtraCapacityRoot(
                ConstructBlock([T EXCEPT !.nextNode = @ + 1], T.nextNode,
                               [i \in 1..ChildCount(T.heap[b]) |-> T.heap[b].children[i]]),
                b, T.nextNode)
         ELSE split(ensureExtraCapacity(T, T.heap[b].parent, 1), b)
    ELSE T

(***************************************************************************)
(* Iterators (MergeTree.h): a position is a node id, 0 at the end.         *)
(***************************************************************************)
hasRightSibling(heap, node) ==
    ChildCount(heap[heap[node].parent]) > heap[node].index + 1

RECURSIVE WalkUp(_, _)
WalkUp(heap, node) ==
    IF heap[node].parent # 0 /\ ~hasRightSibling(heap, node)
    THEN WalkUp(heap, heap[node].parent)
    ELSE node

MergeNodeIteratorNext(heap, node) ==
    IF node = 0 THEN 0
    ELSE IF ~heap[node].isLeaf
         THEN At(heap[node].children, 0)
         ELSE LET up == WalkUp(heap, node)
              IN IF heap[up].parent = 0
                 THEN 0
                 ELSE At(heap[heap[up].parent].children, heap[up].index + 1)

RECURSIVE RawSegmentIteratorNext(_, _)
RawSegmentIteratorNext(heap, node) ==
    LET n == MergeNodeIteratorNext(heap, node)
    IN IF n = 0 THEN 0
       ELSE IF heap[n].isLeaf THEN n
       ELSE RawSegmentIteratorNext(heap, n)

RECURSIVE SegmentIteratorNext(_, _)
SegmentIteratorNext(T, node) ==
    LET n == RawSegmentIteratorNext(T.heap, node)
    IN IF n = 0 THEN 0
       ELSE IF ~IsRemoved(T, T.heap[n]) THEN n
       ELSE SegmentIteratorNext(T, n)

(***************************************************************************)
(* MergeTree: find, findAndSplit, Fetch, Replace (MergeTree.h)             *)
(***************************************************************************)
CpMac(T) ==
    IF ChildCount(T.heap[T.root]) = 0 THEN 0 ELSE TotalLength(T.heap[T.root].lengths)

\* MergeBlock::find under the loop of MergeTree::find: the descent from
\* `node` with residual `offset`; why # "" names the assertion that failed.
RECURSIVE findDescend(_, _, _)
findDescend(heap, node, offset) ==
    IF heap[node].isLeaf
    THEN [why |-> "", seg |-> node, offset |-> offset]
    ELSE LET blk == heap[node]
             res == PLFind(blk.lengths, offset)
         IN IF ChildCount(blk) <= 0
            THEN [why |-> "assert: ChildCount() > 0", seg |-> 0, offset |-> 0]
            ELSE IF ~res.ok
            THEN [why |-> "assert: offset <= lengths.back()", seg |-> 0, offset |-> 0]
            ELSE IF ~(res.index < ChildCount(blk))
            THEN [why |-> "assert: findResult.index < ChildCount()", seg |-> 0, offset |-> 0]
            ELSE findDescend(heap, At(blk.children, res.index), res.offset)

find(T, cp) ==
    IF cp = CpMac(T)
    THEN [why |-> "", seg |-> 0, offset |-> 0]
    ELSE findDescend(T.heap, T.root, cp)

\* The segment made by splitAt sits at id T.nextNode.
splitAt(T, seg, pos) ==
    LET old == T.heap[seg]
        new == T.nextNode
        leafSegment == [old EXCEPT !.text = SubSeqFrom(old.text, pos),
                                   !.length = Len(old.text) - pos]
        edA == Lock(T, leafSegment.edAdded)
        edR == Lock(T, leafSegment.edRemoved)
        heap1 == [n \in DOMAIN T.heap \cup {new} |->
                    IF n = new THEN leafSegment
                    ELSE IF n = seg
                         THEN [old EXCEPT !.text = SubSeqTo(old.text, pos), !.length = pos]
                         ELSE T.heap[n]]
        edits1 == [e \in DOMAIN T.edits |->
                    [T.edits[e] EXCEPT
                        !.segmentsAdded = IF e = edA THEN Append(@, new) ELSE @,
                        !.segmentsRemoved = IF e = edR THEN Append(@, new) ELSE @]]
    IN [T EXCEPT !.heap = heap1, !.edits = edits1, !.nextNode = new + 1]

\* findAndSplit, the end: the parent adopts the tail newSeg of segment seg.
findAndSplitAdopt(T, seg, newSeg) ==
    [T |-> adopt(T, T.heap[seg].parent, newSeg, T.heap[seg].index + 1, TRUE),
     it |-> newSeg]

\* findAndSplit once the parent has room: the segment under it is split.
findAndSplitSegment(T, it) ==
    IF T.failed # "" THEN [T |-> T, it |-> 0]
    ELSE findAndSplitAdopt(splitAt(T, it.seg, it.offset), it.seg, T.nextNode)

\* findAndSplit splitting the segment without asking its parent for room.
findAndSplitAtNoCapacity(T, it) ==
    IF it.why # "" THEN [T |-> Fail(T, it.why), it |-> 0]
    ELSE IF it.seg = 0 THEN [T |-> T, it |-> 0]
    ELSE IF it.offset = 0 THEN [T |-> T, it |-> it.seg]
    ELSE IF ~(it.offset > 0)
         THEN [T |-> Fail(T, "assert: it.OffsetInSegment() > 0"), it |-> 0]
    ELSE IF ~(it.offset < T.heap[it.seg].length)
         THEN [T |-> Fail(T, "assert: it.OffsetInSegment() < it.Segment()->length"), it |-> 0]
    ELSE findAndSplitSegment(T, it)

\* findAndSplit on the result `it` of find.
findAndSplitAt(T, it) ==
    IF it.why # "" THEN [T |-> Fail(T, it.why), it |-> 0]
    ELSE IF it.seg = 0 THEN [T |-> T, it |-> 0]
    ELSE IF it.offset = 0 THEN [T |-> T, it |-> it.seg]
    ELSE IF ~(it.offset > 0)
         THEN [T |-> Fail(T, "assert: it.OffsetInSegment() > 0"), it |-> 0]
    ELSE IF ~(it.offset < T.heap[it.seg].length)
         THEN [T |-> Fail(T, "assert: it.OffsetInSegment() < it.Segment()->length"), it |-> 0]
    ELSE findAndSplitSegment(ensureExtraCapacity(T, T.heap[it.seg].parent, 1), it)

\* Returns the tree and the iterator (a segment id, 0 at the end).
findAndSplit(T, cp) ==
    IF T.failed # "" THEN [T |-> T, it |-> 0]
    ELSE findAndSplitAt(T, find(T, cp))

\* Fetch(cp): the run of characters from cp to the end of its segment.
Fetch(T, cp) ==
    LET Run(it) ==
            IF it.why # "" \/ it.seg = 0
            THEN [ok |-> FALSE, run |-> <<>>]
            ELSE [ok |-> TRUE, run |-> SubSeqFrom(T.heap[it.seg].text, it.offset)]
    IN Run(find(T, cp))

StartLocalEdit(T) ==
    LET ed == T.nextEdit
        rec == [seq |-> T.clientSeqNext, client |-> T.clientLocal,
                segmentsAdded |-> <<>>, segmentsRemoved |-> <<>>,
                adjustment |-> [cp |-> CpInvalid, dcp |-> "indeterminate"]]
    IN [T EXCEPT !.edits = [e \in DOMAIN T.edits \cup {ed} |->
                               IF e = ed THEN rec ELSE T.edits[e]],
                 !.nextEdit = ed + 1,
                 !.m_editsLocal = Append(@, ed),
                 !.clientSeqNext = @ + 1]

\* The loop of Replace that marks the segments in [it0, it) as removed by ed.
RECURSIVE MarkRemoved(_, _, _, _)
MarkRemoved(T, it0, it, ed) ==
    IF T.failed # "" \/ it0 = it THEN T
    ELSE IF it0 = 0 THEN Fail(T, "null dereference in Replace")
    ELSE IF IsRemoved(T, T.heap[it0]) THEN Fail(T, "assert: !segmentRaw->IsRemoved()")
    ELSE
    LET Advance(T1) == MarkRemoved(T1, SegmentIteratorNext(T1, it0), it, ed)
    IN Advance([T EXCEPT !.heap = updateParentLengths(
                                    [T.heap EXCEPT ![it0].edRemoved = ed],
                                    it0, -(T.heap[it0].length)),
                         !.edits[ed].segmentsRemoved = Append(@, it0)])

RECURSIVE RightmostLeafBlock(_, _)
RightmostLeafBlock(heap, parent) ==
    IF ChildCount(heap[parent]) > 0 /\ ~heap[At(heap[parent].children, 0)].isLeaf
    THEN RightmostLeafBlock(heap, At(heap[parent].children, ChildCount(heap[parent]) - 1))
    ELSE parent

SendReplaceOp(T, cp, dcp, text, ed) ==
    IF T.failed # "" THEN T
    ELSE IF Len(T.edits[ed].segmentsAdded) > 0
    THEN [T EXCEPT !.outbox = Append(@,
            [clientSequenceNumber |-> T.edits[ed].seq,
             referenceSequenceNumber |->
                IF T.m_edits = <<>> THEN SeqUniversal
                ELSE T.edits[T.m_edits[Len(T.m_edits)]].seq,
             contents |-> [type |-> "Insert", pos1 |-> cp, pos2 |-> cp + dcp, text |-> text]])]
    ELSE Fail(T, "assert: false (SendReplaceOp without added segments)")

\* Replace, the end: the adjustment is recorded and a local edit is sent.
ReplaceAdjust(T, cp, dcp, text, ed, fLocalEdit) ==
    IF T.failed # "" THEN T
    ELSE IF T.edits[ed].adjustment.cp # CpInvalid
    THEN Fail(T, "assert: ed->adjustment.cp == CharacterPosition::Invalid()")
    ELSE IF fLocalEdit
    THEN SendReplaceOp(
            [T EXCEPT !.edits[ed].adjustment = [cp |-> cp, dcp |-> Len(text) - dcp]],
            cp, dcp, text, ed)
    ELSE [T EXCEPT !.edits[ed].adjustment = [cp |-> cp, dcp |-> Len(text) - dcp]]

\* Replace at the end of the document, after the capacity check: lastChild is
\* the child whose parent is read again, 0 when the block parent0 had room.
ReplaceAppend(T, parent0, lastChild, newSegment) ==
    IF T.failed # "" THEN T
    ELSE LET parent == IF lastChild # 0 THEN T.heap[lastChild].parent ELSE parent0
         IN adopt(T, parent, newSegment, ChildCount(T.heap[parent]), FALSE)

\* Replace at the end of the document without the capacity check: the new
\* segment is adopted by the block the descent found whether it is full or not.
ReplaceAtEndNoCapacity(T, parent0, newSegment) == ReplaceAppend(T, parent0, 0, newSegment)

\* Replace at the end of the document: parent0 is the block the descent by
\* last children found.
ReplaceAtEnd(T, parent0, newSegment) ==
    LET full == ChildCount(T.heap[parent0]) = MaxNodesInBlock
        lastChild == At(T.heap[parent0].children, ChildCount(T.heap[parent0]) - 1)
    IN ReplaceAppend(
            IF full THEN ensureExtraCapacity(T, T.heap[lastChild].parent, 1) ELSE T,
            parent0,
            IF full THEN lastChild ELSE 0,
            newSegment)

\* Replace in front of segment it, after the capacity check.
ReplaceBefore(T, it, newSegment) ==
    IF T.failed # "" THEN T
    ELSE adopt(T, T.heap[it].parent, newSegment, T.heap[it].index, FALSE)

\* Replace: the new segment is put in front of it, or last when it is the end.
ReplacePlace(T, it, newSegment) ==
    IF it = 0
    THEN ReplaceAtEnd(T, RightmostLeafBlock(T.heap, T.root), newSegment)
    ELSE ReplaceBefore(ensureExtraCapacity(T, T.heap[it].parent, 1), it, newSegment)

\* Replace: the segment for a non-empty text is made and recorded in ed.
ReplaceInsert(T, text, it, ed) ==
    IF T.failed # "" \/ Len(text) = 0 THEN T
    ELSE ReplacePlace(
            [T EXCEPT !.heap = [n \in DOMAIN T.heap \cup {T.nextNode} |->
                                  IF n = T.nextNode THEN TextSegment(text, ed) ELSE T.heap[n]],
                      !.nextNode = T.nextNode + 1,
                      !.edits[ed].segmentsAdded = Append(@, T.nextNode)],
            it, T.nextNode)

\* Replace: the segments from the result r0 of findAndSplit(cp) up to it are
\* marked as removed.
ReplaceRemove(r0, it, ed) == MarkRemoved(r0.T, r0.it, it, ed)

\* Replace after findAndSplit(cp + dcp) gave r.
ReplaceRange(r, cp, dcp, text, ed, fLocalEdit) ==
    ReplaceAdjust(
        ReplaceInsert(
            IF dcp > 0 THEN ReplaceRemove(findAndSplit(r.T, cp), r.it, ed) ELSE r.T,
            text, r.it, ed),
        cp, dcp, text, ed, fLocalEdit)

\* Replace once the edit is known: a local edit is the last of m_editsLocal.
ReplaceEdit(T, cp, dcp, text, edArg) ==
    IF ~(dcp >= 0) THEN Fail(T, "assert: dcp >= 0")
    ELSE ReplaceRange(findAndSplit(T, cp + dcp), cp, dcp, text,
                      IF edArg = 0 THEN T.m_editsLocal[Len(T.m_editsLocal)] ELSE edArg,
                      edArg = 0)

\* ed = 0 is the default argument nullptr: a local edit.
Replace(T, cp, dcp, text, edArg) ==
    IF T.failed # "" THEN T
    ELSE ReplaceEdit(IF edArg = 0 THEN StartLocalEdit(T) ELSE T, cp, dcp, text, edArg)

(***************************************************************************)
(* MergeTree: the listener side (MergeTree.h)                              *)
(***************************************************************************)
EditSeqs(T) == [i \in 1..Len(T.m_edits) |-> T.edits[T.m_edits[i]].seq]

\* std::upper_bound over m_edits ordered by seq: the first position whose
\* seq is greater than refSeq (Len + 1 when there is none).
EditsUpperBound(T, refSeq) ==
    LET seqs == EditSeqs(T)
        above == {i \in 1..Len(seqs) : ULess(refSeq, seqs[i])}
    IN IF above = {} THEN Len(seqs) + 1 ELSE SetMin(above)

RECURSIVE TardisAdjust(_, _, _, _)
TardisAdjust(T, cps, i, client) ==
    IF i > Len(T.m_edits) THEN cps
    ELSE LET ed == T.edits[T.m_edits[i]]
         IN IF ed.client = client
            THEN TardisAdjust(T, cps, i + 1, client)
            ELSE TardisAdjust(T,
                    <<CpAdjustCp(cps[1], ed.adjustment, "Right"),
                      CpAdjustCp(cps[2], ed.adjustment, "Right")>>,
                    i + 1, client)

TardisRangeToServerTip(T, cps, refSeq, client) ==
    LET seqs == EditSeqs(T)
        it == EditsUpperBound(T, refSeq)
    IN IF Len(T.m_edits) = 0
       THEN [why |-> "", cps |-> cps]
       ELSE IF \E i \in 2..Len(seqs) : ULess(seqs[i], seqs[i - 1])
       THEN [why |-> "assert: std::is_sorted(m_edits)", cps |-> cps]
       ELSE IF ~(it = Len(seqs) + 1 \/ seqs[it] = refSeq + 1)
       THEN [why |-> "assert: it == m_edits.end() || (*it)->seq == refSeq.next()", cps |-> cps]
       ELSE [why |-> "", cps |-> TardisAdjust(T, cps, it, client)]

\* TardisServerRangeToLocal sticking to the right of the local edits.
RECURSIVE TardisServerRangeToLocalRight(_, _, _)
TardisServerRangeToLocalRight(T, cps, i) ==
    IF i > Len(T.m_editsLocal) THEN cps
    ELSE LET ed == T.edits[T.m_editsLocal[i]]
         IN TardisServerRangeToLocalRight(T,
                <<CpAdjustCp(cps[1], ed.adjustment, "Right"),
                  CpAdjustCp(cps[2], ed.adjustment, "Right")>>,
                i + 1)

RECURSIVE TardisServerRangeToLocalFrom(_, _, _)
TardisServerRangeToLocalFrom(T, cps, i) ==
    IF i > Len(T.m_editsLocal) THEN cps
    ELSE LET ed == T.edits[T.m_editsLocal[i]]
         IN TardisServerRangeToLocalFrom(T,
                <<CpAdjustCp(cps[1], ed.adjustment, "Left"),
                  CpAdjustCp(cps[2], ed.adjustment, "Left")>>,
                i + 1)

TardisServerRangeToLocal(T, cps) == TardisServerRangeToLocalFrom(T, cps, 1)

RebaseLocalEdits(T, cp, dcp) ==
    LET adj == [cp |-> cp, dcp |-> dcp]
        locals == {T.m_editsLocal[i] : i \in 1..Len(T.m_editsLocal)}
    IN [T EXCEPT !.edits = [e \in DOMAIN T.edits |->
            IF e \in locals
            THEN [T.edits[e] EXCEPT !.adjustment.cp = CpAdjustCp(@, adj, "Right")]
            ELSE T.edits[e]]]

RECURSIVE BumpDeadSegments(_, _)
BumpDeadSegments(heap, parent) ==
    IF parent = 0 THEN heap
    ELSE BumpDeadSegments(
            [heap EXCEPT ![parent].stats.cDeadSegments = ToInt8(@ + 1)],
            heap[parent].parent)

RECURSIVE SettleAdded(_, _, _)
SettleAdded(T, ed, i) ==
    IF T.failed # "" \/ i > Len(T.edits[ed].segmentsAdded) THEN T
    ELSE LET segment == T.edits[ed].segmentsAdded[i]
         IN IF segment \notin DOMAIN T.heap
            THEN Fail(T, "null dereference in ClearOldSequenceNumbers")
            ELSE IF Lock(T, T.heap[segment].edAdded) # ed
            THEN Fail(T, "assert: segment->edAdded.lock().get() == ed")
            ELSE SettleAdded([T EXCEPT !.heap[segment].edAdded = 0], ed, i + 1)

RECURSIVE SettleRemoved(_, _, _)
SettleRemoved(T, ed, i) ==
    IF T.failed # "" \/ i > Len(T.edits[ed].segmentsRemoved) THEN T
    ELSE LET segment == T.edits[ed].segmentsRemoved[i]
         IN IF segment \notin DOMAIN T.heap
            THEN Fail(T, "null dereference in ClearOldSequenceNumbers")
            ELSE IF Lock(T, T.heap[segment].edRemoved) # ed
            THEN Fail(T, "assert: segment->edRemoved.lock().get() == ed")
            ELSE LET heap1 == [T.heap EXCEPT ![segment].isDead = TRUE]
                 IN SettleRemoved(
                        [T EXCEPT !.heap = BumpDeadSegments(heap1, heap1[segment].parent)],
                        ed, i + 1)

\* The number of edits at the front of m_edits with minSeq > seq.
RECURSIVE OldPrefix(_, _, _)
OldPrefix(T, minSeq, i) ==
    IF i <= Len(T.m_edits) /\ ULess(T.edits[T.m_edits[i]].seq, minSeq)
    THEN OldPrefix(T, minSeq, i + 1)
    ELSE i - 1

RECURSIVE SettleEdits(_, _, _)
SettleEdits(T, i, n) ==
    IF T.failed # "" \/ i > n THEN T
    ELSE SettleEdits(SettleRemoved(SettleAdded(T, T.m_edits[i], 1), T.m_edits[i], 1), i + 1, n)

\* ClearOldSequenceNumbers, the end: the n settled edits leave m_edits and
\* are destroyed.
ClearOldErase(T, n) ==
    IF T.failed # "" THEN T
    ELSE [T EXCEPT !.m_edits = SubSeqFrom(@, n),
                   !.edits = [e \in DOMAIN T.edits \ {T.m_edits[i] : i \in 1..n} |->
                                 T.edits[e]]]

ClearOldSequenceNumbers(T, minSeq) ==
    IF T.failed # "" THEN T
    ELSE ClearOldErase(SettleEdits(T, 1, OldPrefix(T, minSeq, 1)), OldPrefix(T, minSeq, 1))

\* OnMessageReceived, a remote insert applied at cps: the local edits are
\* rebased over it.
OnMessageRebase(T, cps, text) ==
    IF T.failed # "" THEN T
    ELSE RebaseLocalEdits(T, cps[2], cps[2] - cps[1] + Len(text))

\* OnMessageReceived, a remote insert at the local range cps: the edit ed is
\* made and queued, and Replace applies it.
OnMessageRemote(T, msg, cps, ed) ==
    OnMessageRebase(
        Replace([T EXCEPT !.edits = [e \in DOMAIN T.edits \cup {ed} |->
                                        IF e = ed
                                        THEN [seq |-> msg.sequenceNumber,
                                              client |-> msg.clientId,
                                              segmentsAdded |-> <<>>,
                                              segmentsRemoved |-> <<>>,
                                              adjustment |-> [cp |-> CpInvalid,
                                                              dcp |-> "indeterminate"]]
                                        ELSE T.edits[e]],
                          !.nextEdit = ed + 1,
                          !.m_edits = Append(@, ed)],
                cps[1], cps[2] - cps[1], msg.contents.text, ed),
        cps, msg.contents.text)

\* OnMessageReceived, a remote insert whose range at the server's tip is tip.
OnMessageInsert(T, msg, tip) ==
    IF tip.why # "" THEN Fail(T, tip.why)
    ELSE OnMessageRemote(T, msg, TardisServerRangeToLocal(T, tip.cps), T.nextEdit)

\* An acknowledgement that moves the head edit without giving it the
\* assigned sequence number.
OnMessageApplyKeepSeq(T, msg) ==
    IF msg.clientId = T.clientLocal
    THEN IF T.m_editsLocal = <<>>
         THEN Fail(T, "m_editsLocal.front() on an empty queue")
         ELSE IF msg.clientSequenceNumber # T.edits[Head(T.m_editsLocal)].seq
         THEN Fail(T, "assert: msg.clientSequenceNumber == m_editsLocal.front()->seq")
         ELSE [T EXCEPT !.m_edits = Append(@, Head(T.m_editsLocal)),
                        !.m_editsLocal = Tail(@)]
    ELSE OnMessageInsert(T, msg,
            TardisRangeToServerTip(
                T,
                <<msg.contents.pos1,
                  IF msg.contents.pos2 # CpInvalid
                  THEN msg.contents.pos2 ELSE msg.contents.pos1>>,
                msg.referenceSequenceNumber, msg.clientId))

\* OnMessageReceived whose acknowledgement also clears the adjustment of the
\* acknowledged edit.
OnMessageApplyClearAdjustment(T, msg) ==
    IF msg.clientId = T.clientLocal
    THEN IF T.m_editsLocal = <<>>
         THEN Fail(T, "m_editsLocal.front() on an empty queue")
         ELSE IF msg.clientSequenceNumber # T.edits[Head(T.m_editsLocal)].seq
         THEN Fail(T, "assert: msg.clientSequenceNumber == m_editsLocal.front()->seq")
         ELSE [T EXCEPT !.m_edits = Append(@, Head(T.m_editsLocal)),
                        !.m_editsLocal = Tail(@),
                        !.edits[Head(T.m_editsLocal)].seq = msg.sequenceNumber,
                        !.edits[Head(T.m_editsLocal)].adjustment =
                            [cp |-> CpInvalid, dcp |-> 0]]
    ELSE IF msg.contents.type # "Insert"
         THEN Fail(T, "assert: false (not an insert message)")
         ELSE OnMessageInsert(T, msg,
                TardisRangeToServerTip(
                    T,
                    <<msg.contents.pos1,
                      IF msg.contents.pos2 # CpInvalid
                      THEN msg.contents.pos2 ELSE msg.contents.pos1>>,
                    msg.referenceSequenceNumber, msg.clientId))

\* OnMessageReceived up to the call of ClearOldSequenceNumbers.
OnMessageApply(T, msg) ==
    IF msg.clientId = T.clientLocal
    THEN IF T.m_editsLocal = <<>>
         THEN Fail(T, "m_editsLocal.front() on an empty queue")
         ELSE IF msg.clientSequenceNumber # T.edits[Head(T.m_editsLocal)].seq
         THEN Fail(T, "assert: msg.clientSequenceNumber == m_editsLocal.front()->seq")
         ELSE [T EXCEPT !.m_edits = Append(@, Head(T.m_editsLocal)),
                        !.m_editsLocal = Tail(@),
                        !.edits[Head(T.m_editsLocal)].seq = msg.sequenceNumber]
    ELSE IF msg.contents.type # "Insert"
         THEN Fail(T, "assert: false (not an insert message)")
         ELSE OnMessageInsert(T, msg,
                TardisRangeToServerTip(
                    T,
                    <<msg.contents.pos1,
                      IF msg.contents.pos2 # CpInvalid
                      THEN msg.contents.pos2 ELSE msg.contents.pos1>>,
                    msg.referenceSequenceNumber, msg.clientId))

OnMessageReceived(T, msg) ==
    IF T.failed # "" THEN T
    ELSE ClearOldSequenceNumbers(OnMessageApply(T, msg), msg.minimumSequenceNumber)

(***************************************************************************)
(* MergeTree: bulk load and the arborist (MergeTree.h)                     *)
(***************************************************************************)
\* One pass of the while loop of ReloadBlockFromNodes: the nodes from
\* iBegin on are packed into blocks of MaxNodesInBlock.
RECURSIVE PackLevel(_, _, _, _)
PackLevel(T, nodes, iBegin, acc) ==
    IF T.failed # "" \/ iBegin >= Len(nodes) THEN [T |-> T, nodes |-> acc]
    ELSE LET iEnd == Min2(iBegin + MaxNodesInBlock, Len(nodes))
             block == T.nextNode
             T1 == ConstructBlock([T EXCEPT !.nextNode = @ + 1], block,
                                  SubSeq(nodes, iBegin + 1, iEnd))
         IN PackLevel(T1, nodes, iEnd, Append(acc, block))

\* The while loop of ReloadBlockFromNodes on r = [T, nodes].
RECURSIVE PackLevels(_)
PackLevels(r) ==
    IF r.T.failed # "" \/ Len(r.nodes) <= MaxNodesInBlock THEN r
    ELSE PackLevels(PackLevel(r.T, r.nodes, 0, <<>>))

\* A move assignment that leaves the children pointing at the temporary.
MoveAssignShallow(T, dst, tmp) ==
    LET src == T.heap[tmp]
    IN [T EXCEPT !.heap = [n \in DOMAIN T.heap \ {tmp} |->
            IF n = dst THEN [T.heap[dst] EXCEPT !.children = src.children,
                                                !.lengths = src.lengths,
                                                !.stats = src.stats]
            ELSE T.heap[n]]]

\* *rootBlock = std::move(blockT), blockT being the stack object at id tmp.
MoveAssign(T, dst, tmp) ==
    LET src == T.heap[tmp]
        kids == {src.children[i] : i \in 1..ChildCount(src)}
    IN [T EXCEPT !.heap = [n \in DOMAIN T.heap \ {tmp} |->
            IF n = dst THEN [T.heap[dst] EXCEPT !.children = src.children,
                                                !.lengths = src.lengths,
                                                !.stats = src.stats]
            ELSE IF n \in kids THEN [T.heap[n] EXCEPT !.parent = dst]
            ELSE T.heap[n]]]

\* ReloadBlockFromNodes, the end: the block built on the stack at id blockT
\* is moved into *rootBlock.
ReloadBlockMove(T, rootBlock, blockT) ==
    IF T.failed # "" THEN T ELSE MoveAssign(T, rootBlock, blockT)

\* ReloadBlockFromNodes after the loop left r = [T, nodes].
ReloadBlockTop(r, rootBlock) ==
    ReloadBlockMove(ConstructBlock(r.T, r.T.nextNode, r.nodes), rootBlock, r.T.nextNode)

ReloadBlockFromNodes(T, rootBlock, nodes) ==
    ReloadBlockTop(PackLevels([T |-> T, nodes |-> nodes]), rootBlock)

\* The caller's vector of fresh TextSegments, one per text, and the load.
ReloadFromSegments(T, texts) ==
    IF T.failed # "" THEN T
    ELSE
    LET first == T.nextNode
        n == Len(texts)
        rootBlock == first + n
        nodes == [i \in 1..n |-> first + i - 1]
        heap1 == [k \in first..rootBlock |->
                    IF k = rootBlock THEN MergeBlock ELSE TextSegment(texts[k - first + 1], 0)]
        T1 == ReloadBlockFromNodes([T EXCEPT !.heap = heap1, !.nextNode = rootBlock + 1],
                                   rootBlock, nodes)
    IN [T1 EXCEPT !.root = rootBlock]

RECURSIVE FindRebalancePoint(_, _)
FindRebalancePoint(heap, block) ==
    LET blk == heap[block]
        n == ChildCount(blk)
        unbal == {i \in 0..(n - 1) : IsUnbalanced(heap[At(blk.children, i)])}
    IN IF n > 0 /\ heap[At(blk.children, 0)].isLeaf
       THEN block
       ELSE IF unbal = {} THEN block
       ELSE FindRebalancePoint(heap, At(blk.children, SetMin(unbal)))

\* The concatenation of ss[lo..hi], split in halves to keep the nesting low.
RECURSIVE Flatten(_, _, _)
Flatten(ss, lo, hi) ==
    IF lo > hi THEN <<>>
    ELSE IF lo = hi THEN ss[lo]
    ELSE LET mid == (lo + hi) \div 2
         IN Flatten(ss, lo, mid) \o Flatten(ss, mid + 1, hi)

RECURSIVE EnumerateSegments(_, _)
EnumerateSegments(heap, node) ==
    IF heap[node].isLeaf THEN <<node>>
    ELSE Flatten([i \in 1..ChildCount(heap[node]) |->
                    EnumerateSegments(heap, heap[node].children[i])],
                 1, ChildCount(heap[node]))

RECURSIVE Descendants(_, _)
Descendants(heap, node) ==
    IF heap[node].isLeaf THEN {node}
    ELSE {node} \cup UNION {Descendants(heap, At(heap[node].children, i)) :
                               i \in 0..(ChildCount(heap[node]) - 1)}

\* The text of the visible segments in document order: a segment is visible
\* when no live Edit removed it and it is not dead.
VisibleText(T) ==
    LET segs == EnumerateSegments(T.heap, T.root)
        texts == [i \in 1..Len(segs) |->
                    IF ~IsRemoved(T, T.heap[segs[i]]) /\ ~T.heap[segs[i]].isDead
                    THEN T.heap[segs[i]].text
                    ELSE <<>>]
    IN Flatten(texts, 1, Len(texts))

\* The segments of a tree that ClearOldSequenceNumbers marked dead.
DeadSegmentsOf(T) == {n \in DOMAIN T.heap : T.heap[n].isLeaf /\ T.heap[n].isDead}

RECURSIVE RecomputeAncestorStats(_, _)
RecomputeAncestorStats(T, parent) ==
    IF parent = 0 THEN T
    ELSE RecomputeAncestorStats(
            [T EXCEPT !.heap[parent].stats = recomputeStatsSlow(T, T.heap[parent])],
            T.heap[parent].parent)

\* The tree under `node` without the addresses of its blocks: what one turn
\* of the arborist's loop reads.
RECURSIVE Shape(_, _)
Shape(heap, node) ==
    IF heap[node].isLeaf THEN <<node, heap[node].isDead>>
    ELSE <<heap[node].stats,
           [i \in 1..ChildCount(heap[node]) |-> Shape(heap, heap[node].children[i])]>>

\* A turn of RunArborist, the end: the stats above the rebuilt block.
ArboristRecompute(T, block) ==
    IF T.failed # "" THEN T
    ELSE RecomputeAncestorStats(T, T.heap[block].parent)

\* A turn of RunArborist on `block` with the live segments `nodes` under it:
\* the block is cleared, the dead segments and the old blocks are freed, and
\* the block is reloaded.
ArboristReload(T, block, nodes) ==
    ArboristRecompute(
        ReloadBlockFromNodes(
            [T EXCEPT !.heap =
                [n \in (DOMAIN T.heap \ Descendants(T.heap, block)) \cup {block}
                            \cup {nodes[i] : i \in 1..Len(nodes)} |->
                    IF n = block
                    THEN [T.heap[block] EXCEPT !.children = NullChildren,
                                               !.lengths = EmptyLengths]
                    ELSE T.heap[n]]],
            block, nodes),
        block)

\* A turn of RunArborist on the block FindRebalancePoint returned.
ArboristAt(T, block) ==
    ArboristReload(T, block,
                   SelectSeq(EnumerateSegments(T.heap, block), LAMBDA s : ~T.heap[s].isDead))

\* One turn of the while loop of RunArborist.
ArboristStep(T) == ArboristAt(T, FindRebalancePoint(T.heap, T.root))

\* The loop of RunArborist. The caller's flag is not written by the loop,
\* so it keeps its value. A turn that leaves an unbalanced root over the
\* same tree shape repeats for ever: the call does not return.
RECURSIVE ArboristLoop(_, _)

\* The loop after a turn took the tree from T to T1.
ArboristTurn(T, T1, fKeepGoing) ==
    IF T1.failed = "" /\ Shape(T1.heap, T1.root) = Shape(T.heap, T.root)
    THEN Fail(T1, "RunArborist does not terminate")
    ELSE ArboristLoop(T1, fKeepGoing)

ArboristLoop(T, fKeepGoing) ==
    IF T.failed # "" THEN T
    ELSE IF IsUnbalanced(T.heap[T.root]) /\ fKeepGoing
    THEN ArboristTurn(T, ArboristStep(T), fKeepGoing)
    ELSE T

RunArborist(T, fKeepGoing) == ArboristLoop(T, fKeepGoing)

RunMaintenance(T, fKeepGoing) == RunArborist(T, fKeepGoing)

(***************************************************************************)
(* Reading a document: the walk of AssertDoc (Test/MergeTreeTest.cpp)      *)
(***************************************************************************)
\* cp := 0; while cp < CpMac { run := Fetch(cp); cp += |run| }. A walk
\* state is [ok, cp, doc]; ok turns FALSE when a Fetch fails or returns an
\* empty run (the loop would not advance).
FetchStep(T, w) ==
    IF ~w.ok \/ ~(w.cp < CpMac(T)) THEN w
    ELSE LET Fetched(f) ==
                 IF ~f.ok \/ f.run = <<>>
                 THEN [w EXCEPT !.ok = FALSE]
                 ELSE [ok |-> TRUE, cp |-> w.cp + Len(f.run), doc |-> w.doc \o f.run]
         IN Fetched(Fetch(T, w.cp))

\* n turns of the loop, taken in halves to keep the nesting low.
RECURSIVE FetchSteps(_, _, _)
FetchSteps(T, w, n) ==
    IF n <= 0 \/ ~w.ok \/ ~(w.cp < CpMac(T)) THEN w
    ELSE IF n = 1 THEN FetchStep(T, w)
    ELSE FetchSteps(T, FetchSteps(T, w, n \div 2), n - (n \div 2))

\* Every turn advances cp by at least one, so CpMac turns end the loop.
FetchWalk(T, cp) == FetchSteps(T, [ok |-> TRUE, cp |-> cp, doc |-> <<>>], Max2(CpMac(T), 0))

AssertDoc(T) == FetchWalk(T, 0).doc

(***************************************************************************)
(* State                                                                   *)
(***************************************************************************)
VARIABLES
    trees,      \* client id -> the MergeTree of that client
    router,     \* the router the trees are attached to
    pending,    \* history: the local Replace calls since the last PumpMessages
                \* (with the loopback router: the names of the calls made so far)
    base,       \* history: every client's document at the last PumpMessages
    delivered,  \* history: the calls the last PumpMessages delivered, and their base
    refDoc,     \* history: the string reference of the loopback client
    nOps,       \* the number of operations issued so far
    lastOp,     \* history: the operation that led to this state, with its arguments
    probe       \* inputs and result of the last evaluation of CpAdjustCp

vars == <<trees, router, pending, base, delivered, refDoc, nOps, lastOp, probe>>

NewMergeTree(client) ==
    [heap |-> [n \in {1} |-> MergeBlock], nextNode |-> 2, root |-> 1,
     edits |-> [e \in {} |-> 0], nextEdit |-> 1,
     m_edits |-> <<>>, m_editsLocal |-> <<>>,
     clientSeqNext |-> ClientSeqFirst, clientLocal |-> client,
     outbox |-> <<>>, failed |-> ""]

Running == \A c \in DOMAIN trees : trees[c].failed = ""

Docs == [c \in DOMAIN trees |-> AssertDoc(trees[c])]

(***************************************************************************)
(* Bounds of the exploration                                               *)
(***************************************************************************)
NumClients == 3

MaxOps == 3

TextLen == 2

MaxLoopOps == 4

MaxBigOps == 3

SmallHeap == 30

MaxDcp == 3

MaxAdjCp == 9

MaxAdjDcp == 7

MaxQueueLength == 2

MaxQueueOps == 5

MaxQueueDcp == 2

Clients == {MultiClientIdBase + i : i \in 0..(NumClients - 1)}

\* The text of the k-th call, of length len: characters no other call uses.
TextOf(k, len) == [i \in 1..len |-> 10 * k + i]

(***************************************************************************)
(* MultiClientRouter<N> with N MergeTrees (Router.h, MergeTreeTest.cpp)    *)
(***************************************************************************)
\* MultiClientRouter::Receive, reached from Endpoint::Send.
Receive(r, msg, client) ==
    [r EXCEPT !.seq = @ + 1,
              !.msgs = Append(@,
                [sequenceNumber |-> r.seq,
                 clientSequenceNumber |-> msg.clientSequenceNumber,
                 referenceSequenceNumber |-> msg.referenceSequenceNumber,
                 minimumSequenceNumber |-> SeqUniversal,
                 clientId |-> client,
                 contents |-> msg.contents])]

\* The listeners in the order the trees registered: docs[0], docs[1], ...
Listeners == [i \in 1..NumClients |-> MultiClientIdBase + i - 1]

\* The inner loop of PumpMessages from listener i on: st holds the trees of
\* the listeners and the log of the calls of OnMessageReceived made so far.
RECURSIVE DeliverLogged(_, _, _)
DeliverLogged(st, msg, i) ==
    IF i > Len(Listeners) THEN st
    ELSE IF \E c \in DOMAIN st.trees : st.trees[c].failed # "" THEN st
    ELSE DeliverLogged(
            [trees |-> [st.trees EXCEPT ![Listeners[i]] = OnMessageReceived(@, msg)],
             log |-> Append(st.log, [listener |-> Listeners[i],
                                     sequenceNumber |-> msg.sequenceNumber])],
            msg, i + 1)

\* PumpMessages with the loops exchanged: every message to the first
\* listener, then every message to the next one.
RECURSIVE PumpListenerMajorFrom(_, _, _, _)
PumpListenerMajorFrom(st, msgs, i, k) ==
    IF i > Len(Listeners) THEN st
    ELSE IF k > Len(msgs) THEN PumpListenerMajorFrom(st, msgs, i + 1, 1)
    ELSE IF \E c \in DOMAIN st.trees : st.trees[c].failed # "" THEN st
    ELSE PumpListenerMajorFrom(
            [trees |-> [st.trees EXCEPT ![Listeners[i]] = OnMessageReceived(@, msgs[k])],
             log |-> Append(st.log, [listener |-> Listeners[i],
                                     sequenceNumber |-> msgs[k].sequenceNumber])],
            msgs, i, k + 1)

PumpListenerMajor(st, msgs) == PumpListenerMajorFrom(st, msgs, 1, 1)

\* The outer loop of PumpMessages over the buffered messages.
RECURSIVE PumpLogged(_, _)
PumpLogged(st, msgs) ==
    IF msgs = <<>> THEN st
    ELSE PumpLogged(DeliverLogged(st, Head(msgs), 1), Tail(msgs))

DeliverToAll(ts, msg, i) == DeliverLogged([trees |-> ts, log |-> <<>>], msg, i).trees

PumpAll(ts, msgs) == PumpLogged([trees |-> ts, log |-> <<>>], msgs).trees

\* A Send that runs every listener before it returns, as the loopback
\* router does.
EndpointSendAndDeliver(ts, r, msg, client) ==
    LET r1 == Receive(r, msg, client)
    IN [trees |-> DeliverToAll(ts, r1.msgs[Len(r1.msgs)], 1), router |-> r1]

\* Endpoint::Send: hands the message to the router, which queues it; no
\* listener runs. ts are the trees of the listeners, returned as they were.
EndpointSend(ts, r, msg, client) == [trees |-> ts, router |-> Receive(r, msg, client)]

NoProbe ==
    [cp |-> 0, adj |-> [cp |-> 0, dcp |-> 0], stick |-> "Left", result |-> 0, done |-> FALSE]

MultiInit ==
    /\ trees = [c \in Clients |-> NewMergeTree(c)]
    /\ router = [kind |-> "multi", seq |-> MultiRouterFirstSeq, msgs |-> <<>>]
    /\ pending = <<>>
    /\ base = [c \in Clients |-> <<>>]
    /\ delivered = [ops |-> <<>>, base |-> [c \in Clients |-> <<>>], log |-> <<>>,
                   msgs |-> <<>>]
    /\ refDoc = <<>>
    /\ nOps = 0
    /\ lastOp = [op |-> "init"]
    /\ probe = NoProbe

\* docs[c].Replace(cp, dcp, text) on the tree of client c.
LocalReplace(c, cp, dcp) ==
    /\ Running
    /\ nOps < MaxOps
    /\ LET text == TextOf(nOps + 1, TextLen)
           Issued(sent) ==
               /\ trees' = sent.trees
               /\ router' = sent.router
           Replaced(T1, ts1) ==
               Issued(IF T1.outbox = <<>>
                      THEN [trees |-> ts1, router |-> router]
                      ELSE EndpointSend(ts1, router, T1.outbox[1], c))
           Called(T1) == Replaced(T1, [trees EXCEPT ![c] = [T1 EXCEPT !.outbox = <<>>]])
       IN /\ Called(Replace(trees[c], cp, dcp, text, 0))
          /\ pending' = Append(pending,
                [client |-> c, cp |-> cp, dcp |-> dcp, text |-> text,
                 seq |-> router.seq, before |-> AssertDoc(trees[c])])
    /\ nOps' = nOps + 1
    /\ lastOp' = [op |-> "Replace", client |-> c, cp |-> cp, dcp |-> dcp]
    /\ UNCHANGED <<base, delivered, refDoc, probe>>

PumpMessages ==
    /\ Running
    /\ router.msgs # <<>>
    /\ LET Pumped(st) ==
               /\ trees' = st.trees
               /\ delivered' = [ops |-> pending, base |-> base, log |-> st.log,
                                 msgs |-> router.msgs]
       IN Pumped(PumpLogged([trees |-> trees, log |-> <<>>], router.msgs))
    /\ router' = [router EXCEPT !.msgs = <<>>]
    /\ pending' = <<>>
    /\ base' = [c \in Clients |-> AssertDoc(trees'[c])]
    /\ lastOp' = [op |-> "PumpMessages"]
    /\ UNCHANGED <<refDoc, nOps, probe>>

MultiNext ==
    \/ \E c \in Clients :
          \E cp \in 0..CpMac(trees[c]) :
             \E dcp \in 0..(CpMac(trees[c]) - cp) :
                LocalReplace(c, cp, dcp)
    \/ PumpMessages

Spec == MultiInit /\ [][MultiNext]_vars

(***************************************************************************)
(* SimpleLoopbackRouter with one MergeTree (Router.h, MergeTreeTest.cpp)   *)
(***************************************************************************)
\* The while loop of Send: deliver from the front until the queue fits.
\* log is the history of the calls of the listener: the messages in the
\* order it received them.
\* The while loop of Send taking the newest message of the queue instead of
\* the oldest.
RECURSIVE LoopbackDrainNewest(_, _, _)
LoopbackDrainNewest(r, T, log) ==
    IF Len(r.queue) > r.maxQueueLength /\ T.failed = ""
    THEN LoopbackDrainNewest([r EXCEPT !.queue = SubSeq(@, 1, Len(@) - 1)],
                             OnMessageReceived(T, r.queue[Len(r.queue)]),
                             Append(log, r.queue[Len(r.queue)]))
    ELSE [router |-> r, T |-> T, log |-> log]

RECURSIVE LoopbackDrain(_, _, _)
LoopbackDrain(r, T, log) ==
    IF Len(r.queue) > r.maxQueueLength /\ T.failed = ""
    THEN LoopbackDrain([r EXCEPT !.queue = Tail(@)], OnMessageReceived(T, Head(r.queue)),
                       Append(log, Head(r.queue)))
    ELSE [router |-> r, T |-> T, log |-> log]

LoopbackSend(r, T, msg) ==
    LoopbackDrain(
        [r EXCEPT !.seq = @ + 1,
                  !.queue = Append(@,
                    [sequenceNumber |-> r.seq,
                     clientSequenceNumber |-> msg.clientSequenceNumber,
                     referenceSequenceNumber |-> msg.referenceSequenceNumber,
                     minimumSequenceNumber |-> r.seq,
                     clientId |-> LoopbackClientId,
                     contents |-> msg.contents])],
        T, <<>>)

\* The Send that ends a local Replace, which left its message in the outbox;
\* nothing is sent when Replace failed.
LoopbackSendOp(r, T) ==
    IF T.failed = "" /\ T.outbox # <<>>
    THEN LoopbackSend(r, [T EXCEPT !.outbox = <<>>], T.outbox[1])
    ELSE [router |-> r, T |-> T, log |-> <<>>]

LoopInit ==
    /\ trees = [c \in {LoopbackClientId} |-> NewMergeTree(LoopbackClientId)]
    /\ router = [kind |-> "loopback", seq |-> 0, queue |-> <<>>, maxQueueLength |-> 0]
    /\ pending = <<>>
    /\ base = <<>>
    /\ delivered = <<>>
    /\ refDoc = <<>>
    /\ nOps = 0
    /\ lastOp = [op |-> "init"]
    /\ probe = NoProbe

Doc == trees[LoopbackClientId]

\* The operations explored: MaxLoopOps on a tree of at most SmallHeap nodes,
\* MaxBigOps on a larger one.
OpsAllowed == IF Doc.nextNode - 1 > SmallHeap THEN MaxBigOps ELSE MaxLoopOps

\* The segments handed to ReloadFromSegments: n texts of TextLen characters.
LoadTexts(n) == [i \in 1..n |-> [j \in 1..TextLen |-> 1000 + TextLen * (i - 1) + j]]

\* The numbers of segments loaded: a root of leaves (1, 31, 32), a root over
\* a full block and one more segment (33), a root over two full blocks (64),
\* a root with IdealNodesInBlock full blocks (768), a full root over full
\* blocks but for two slots (1022).
LoadSizes == {1, 31, 32, 33, 64, 768, 1022}

\* The string reference: doc[0..cp) + text + doc[cp+dcp..).
StringReplace(doc, cp, dcp, text) == SubSeqTo(doc, cp) \o text \o SubSeqFrom(doc, cp + dcp)

DoReload(n) ==
    /\ Running
    /\ nOps = 0
    /\ trees' = [trees EXCEPT ![LoopbackClientId] = ReloadFromSegments(@, LoadTexts(n))]
    /\ refDoc' = Flatten(LoadTexts(n), 1, n)
    /\ nOps' = nOps + 1
    /\ lastOp' = [op |-> "ReloadFromSegments", n |-> n]
    /\ pending' = Append(pending, "ReloadFromSegments")
    /\ UNCHANGED <<router, base, delivered, probe>>

\* doc.Replace(cp, dcp, text) with the router delivering inside Send.
DoReplace(cp, dcp) ==
    /\ Running
    /\ nOps < OpsAllowed
    /\ LET text == TextOf(nOps + 1, TextLen)
           Issued(sent) ==
               /\ trees' = [trees EXCEPT ![LoopbackClientId] = sent.T]
               /\ router' = sent.router
       IN /\ Issued(LoopbackSendOp(router, Replace(Doc, cp, dcp, text, 0)))
          /\ refDoc' = StringReplace(refDoc, cp, dcp, text)
    /\ nOps' = nOps + 1
    /\ lastOp' = [op |-> "Replace", cp |-> cp, dcp |-> dcp]
    /\ pending' = Append(pending, "Replace")
    /\ UNCHANGED <<base, delivered, probe>>

DoRunMaintenance(fKeepGoing) ==
    /\ Running
    /\ nOps < OpsAllowed
    /\ trees' = [trees EXCEPT ![LoopbackClientId] = RunMaintenance(@, fKeepGoing)]
    /\ nOps' = nOps + 1
    /\ lastOp' = [op |-> "RunMaintenance", fKeepGoing |-> fKeepGoing,
                  rebuilt |-> trees'[LoopbackClientId].heap # Doc.heap]
    /\ pending' = Append(pending, "RunMaintenance")
    /\ UNCHANGED <<router, base, delivered, refDoc, probe>>

\* Positions tried by Replace: every position of a short document, and the
\* two ends and the segment boundaries next to them in a long one.
CpChoices(T) ==
    LET mac == CpMac(T)
    IN IF mac <= 4 * TextLen THEN 0..mac
       ELSE {0, 1, TextLen, mac - TextLen, mac}

LoopNext ==
    \/ \E n \in LoadSizes : DoReload(n)
    \/ \E cp \in CpChoices(Doc) :
          \E dcp \in 0..Min2(MaxDcp, CpMac(Doc) - cp) : DoReplace(cp, dcp)
    \/ \E fKeepGoing \in BOOLEAN : DoRunMaintenance(fKeepGoing)

SpecLoop == LoopInit /\ [][LoopNext]_vars

(***************************************************************************)
(* Maintenance of a large document: ReloadFromSegments, then Replace at    *)
(* the first segment boundaries and RunMaintenance (MergeTree.h)           *)
(***************************************************************************)
\* The operations explored on the large document.
MaxMaintOps == 5

\* The numbers of segments loaded: one, and a full root over full blocks
\* but for two slots.
MaintLoadSizes == {1, 1022}

MaintReload(n) ==
    /\ Running
    /\ nOps = 0
    /\ trees' = [trees EXCEPT ![LoopbackClientId] = ReloadFromSegments(@, LoadTexts(n))]
    /\ refDoc' = Flatten(LoadTexts(n), 1, n)
    /\ nOps' = nOps + 1
    /\ lastOp' = [op |-> "ReloadFromSegments", n |-> n]
    /\ pending' = Append(pending, "ReloadFromSegments")
    /\ UNCHANGED <<router, base, delivered, probe>>

\* doc.Replace(cp, dcp, text) with the router delivering inside Send.
MaintReplace(cp, dcp) ==
    /\ Running
    /\ 0 < nOps /\ nOps < MaxMaintOps
    /\ LET text == TextOf(nOps + 1, TextLen)
           Issued(sent) ==
               /\ trees' = [trees EXCEPT ![LoopbackClientId] = sent.T]
               /\ router' = sent.router
       IN /\ Issued(LoopbackSendOp(router, Replace(Doc, cp, dcp, text, 0)))
          /\ refDoc' = StringReplace(refDoc, cp, dcp, text)
    /\ nOps' = nOps + 1
    /\ lastOp' = [op |-> "Replace", cp |-> cp, dcp |-> dcp]
    /\ pending' = Append(pending, "Replace")
    /\ UNCHANGED <<base, delivered, probe>>

MaintRun(fKeepGoing) ==
    /\ Running
    /\ 0 < nOps /\ nOps < MaxMaintOps
    /\ trees' = [trees EXCEPT ![LoopbackClientId] = RunMaintenance(@, fKeepGoing)]
    /\ nOps' = nOps + 1
    /\ lastOp' = [op |-> "RunMaintenance", fKeepGoing |-> fKeepGoing,
                  rebuilt |-> trees'[LoopbackClientId].heap # Doc.heap]
    /\ pending' = Append(pending, "RunMaintenance")
    /\ UNCHANGED <<router, base, delivered, refDoc, probe>>

MaintNext ==
    \/ \E n \in MaintLoadSizes : MaintReload(n)
    \/ \E cp \in {c \in {0, TextLen} : c <= CpMac(Doc)} :
          \E dcp \in {d \in {0, TextLen} : cp + d <= CpMac(Doc)} : MaintReplace(cp, dcp)
    \/ \E fKeepGoing \in BOOLEAN : MaintRun(fKeepGoing)

SpecMaint == LoopInit /\ [][MaintNext]_vars

(***************************************************************************)
(* A tree with settled history next to a tree reloaded from its visible    *)
(* text, each on its own immediate SimpleLoopbackRouter (MergeTree.h,      *)
(* Router.h)                                                               *)
(***************************************************************************)
\* The Replace calls that make the history of the first tree.
MaxAgedHistory == 3

\* The operations explored: the history, the reload and the calls on both.
MaxAgedOps == 5

\* The longest range removed by one Replace.
MaxAgedDcp == 2

\* The key of the reloaded tree in `trees` and `router`.
ReloadedTree == LoopbackClientId + 1

Reloaded == trees[ReloadedTree]

ImmediateLoopback == [kind |-> "loopback", seq |-> 0, queue |-> <<>>, maxQueueLength |-> 0]

AgedInit ==
    /\ trees = [c \in {LoopbackClientId} |-> NewMergeTree(LoopbackClientId)]
    /\ router = [c \in {LoopbackClientId} |-> ImmediateLoopback]
    /\ pending = <<>>
    /\ base = <<>>
    /\ delivered = <<>>
    /\ refDoc = <<>>
    /\ nOps = 0
    /\ lastOp = [op |-> "init"]
    /\ probe = NoProbe

\* Replace(cp, dcp, text) on the tree with key c, its router delivering
\* inside Send.
AgedCall(c, cp, dcp, text) == LoopbackSendOp(router[c], Replace(trees[c], cp, dcp, text, 0))

\* A Replace that makes history in the first tree.
AgedReplace(cp, dcp) ==
    /\ Running
    /\ ReloadedTree \notin DOMAIN trees
    /\ nOps < MaxAgedHistory
    /\ LET Issued(sent) ==
               /\ trees' = [trees EXCEPT ![LoopbackClientId] = sent.T]
               /\ router' = [router EXCEPT ![LoopbackClientId] = sent.router]
       IN Issued(AgedCall(LoopbackClientId, cp, dcp, TextOf(nOps + 1, TextLen)))
    /\ refDoc' = StringReplace(refDoc, cp, dcp, TextOf(nOps + 1, TextLen))
    /\ nOps' = nOps + 1
    /\ lastOp' = [op |-> "Replace", cp |-> cp, dcp |-> dcp]
    /\ pending' = Append(pending, "Replace")
    /\ UNCHANGED <<base, delivered, probe>>

\* ReloadFromSegments on a new tree with the visible text of the first one,
\* once the first one holds a segment whose removal was settled.
AgedReload ==
    /\ Running
    /\ ReloadedTree \notin DOMAIN trees
    /\ DeadSegmentsOf(Doc) # {}
    /\ VisibleText(Doc) # <<>>
    /\ trees' = [c \in {LoopbackClientId, ReloadedTree} |->
                    IF c = LoopbackClientId THEN Doc
                    ELSE ReloadFromSegments(NewMergeTree(LoopbackClientId),
                                            <<VisibleText(Doc)>>)]
    /\ router' = [c \in {LoopbackClientId, ReloadedTree} |->
                    IF c = LoopbackClientId THEN router[c] ELSE ImmediateLoopback]
    /\ nOps' = nOps + 1
    /\ lastOp' = [op |-> "ReloadFromSegments", n |-> 1]
    /\ pending' = Append(pending, "ReloadFromSegments")
    /\ UNCHANGED <<base, delivered, refDoc, probe>>

\* The same Replace on both trees.
AgedReplaceBoth(cp, dcp) ==
    /\ Running
    /\ ReloadedTree \in DOMAIN trees
    /\ nOps < MaxAgedOps
    /\ LET Issued(sent1, sent2) ==
               /\ trees' = [c \in DOMAIN trees |->
                               IF c = LoopbackClientId THEN sent1.T ELSE sent2.T]
               /\ router' = [c \in DOMAIN trees |->
                               IF c = LoopbackClientId THEN sent1.router ELSE sent2.router]
       IN Issued(AgedCall(LoopbackClientId, cp, dcp, TextOf(nOps + 1, TextLen)),
                 AgedCall(ReloadedTree, cp, dcp, TextOf(nOps + 1, TextLen)))
    /\ refDoc' = StringReplace(refDoc, cp, dcp, TextOf(nOps + 1, TextLen))
    /\ nOps' = nOps + 1
    /\ lastOp' = [op |-> "Replace", cp |-> cp, dcp |-> dcp]
    /\ pending' = Append(pending, "Replace")
    /\ UNCHANGED <<base, delivered, probe>>

AgedNext ==
    \/ \E cp \in 0..CpMac(Doc) :
          \E dcp \in 0..Min2(MaxAgedDcp, CpMac(Doc) - cp) : AgedReplace(cp, dcp)
    \/ AgedReload
    \/ \E cp \in 0..Len(refDoc) :
          \E dcp \in 0..Min2(MaxAgedDcp, Len(refDoc) - cp) : AgedReplaceBoth(cp, dcp)

SpecAged == AgedInit /\ [][AgedNext]_vars

(***************************************************************************)
(* MergeTree_AppendMany (MergeTreeTest.cpp): one character appended to an  *)
(* empty document on an immediate SimpleLoopbackRouter, again and again    *)
(***************************************************************************)
\* The number of appends of the test.
MaxAppends == 500

\* The text of every append, "a".
AppendText == <<97>>

\* doc.Replace(doc.CpMac(), 0, "a")
AppendOne ==
    /\ Running
    /\ nOps < MaxAppends
    /\ LET Issued(sent) ==
               /\ trees' = [trees EXCEPT ![LoopbackClientId] = sent.T]
               /\ router' = sent.router
       IN Issued(LoopbackSendOp(router, Replace(Doc, CpMac(Doc), 0, AppendText, 0)))
    /\ refDoc' = refDoc \o AppendText
    /\ nOps' = nOps + 1
    /\ lastOp' = [op |-> "Replace", cp |-> CpMac(Doc), dcp |-> 0]
    /\ pending' = <<"Replace">>
    /\ UNCHANGED <<base, delivered, probe>>

AppendNext == AppendOne

SpecAppend == LoopInit /\ [][AppendNext]_vars

(***************************************************************************)
(* A listener called out of order: after a PumpMessages, OnMessageReceived *)
(* is called once more with a message of that pump (MergeTree.h)           *)
(***************************************************************************)
\* listener c receives again the k-th message of the last PumpMessages: its
\* sequenceNumber is not greater than that of the message c received last.
Redeliver(c, k) ==
    /\ Running
    /\ nOps < MaxOps
    /\ lastOp.op = "PumpMessages"
    /\ k \in 1..Len(delivered.msgs)
    /\ trees' = [trees EXCEPT ![c] = OnMessageReceived(@, delivered.msgs[k])]
    /\ lastOp' = [op |-> "OnMessageReceived", client |-> c,
                  sequenceNumber |-> delivered.msgs[k].sequenceNumber,
                  own |-> delivered.msgs[k].clientId = c]
    /\ nOps' = nOps + 1
    /\ UNCHANGED <<router, pending, base, delivered, refDoc, probe>>

OrderNext ==
    \/ MultiNext
    \/ \E c \in Clients : \E k \in 1..NumClients : Redeliver(c, k)

SpecOrder == MultiInit /\ [][OrderNext]_vars

(***************************************************************************)
(* Seq (Seq.h). A uint32_t is kept as the 32-bit two's complement integer  *)
(* with the same bits: 0 .. 2^31 - 1 as themselves, 2^31 + k as            *)
(* Int32Min + k, so that 2^32 - 1 is -1; ULess is the unsigned order.      *)
(***************************************************************************)
\* std::numeric_limits<int32_t>::max()
Int32Max == 2147483647

Int32Min == (-Int32Max) - 1

\* The uint32_t 2^31 + k, for 0 <= k < 2^31.
HighHalf(k) == Int32Min + k

\* std::numeric_limits<uint32_t>::max(), 2^32 - 1.
UInt32Max == HighHalf(Int32Max)

SeqInvalid == UInt32Max

\* static_cast<uint32_t>(std::numeric_limits<int32_t>::max()) + 1
SeqLocalFirst == HighHalf(0)

SeqMax == HighHalf(Int32Max - 1)

\* isAcked with <= for <.
isAckedUpTo(seq) == ULessEq(seq, SeqLocalFirst)

isAcked(seq) == ULess(seq, SeqLocalFirst)

\* The values tried next to each end of the regions.
SeqWindow == 20

SeqInputs ==
    (0..SeqWindow) \cup {Int32Max - k : k \in 0..SeqWindow}
        \cup {HighHalf(k) : k \in 0..SeqWindow}
        \cup {HighHalf(Int32Max - k) : k \in 0..SeqWindow}

SeqInit ==
    /\ trees = <<>>
    /\ router = [kind |-> "none"]
    /\ pending = <<>>
    /\ base = <<>>
    /\ delivered = <<>>
    /\ refDoc = <<>>
    /\ nOps = 0
    /\ lastOp = [op |-> "init"]
    /\ probe \in {[seq |-> sq, acked |-> FALSE, done |-> FALSE] : sq \in SeqInputs}

\* One call of Seq::isAcked.
CheckAcked ==
    /\ ~probe.done
    /\ probe' = [probe EXCEPT !.acked = isAcked(probe.seq), !.done = TRUE]
    /\ lastOp' = [op |-> "isAcked"]
    /\ UNCHANGED <<trees, router, pending, base, delivered, refDoc, nOps>>

SeqNext == CheckAcked

SpecSeq == SeqInit /\ [][SeqNext]_vars

(***************************************************************************)
(* CpAdjustCp applied to one position, adjustment and stickiness           *)
(* (MergeTree.h, AdjustCpTest in MergeTreeTest.cpp)                        *)
(***************************************************************************)
AdjInputs ==
    {[cp |-> p, adj |-> [cp |-> c, dcp |-> d], stick |-> s, result |-> 0, done |-> FALSE] :
        p \in 0..MaxAdjCp, c \in 0..MaxAdjCp, d \in (-MaxAdjDcp)..MaxAdjDcp,
        s \in {"Left", "Right"}}

AdjInit ==
    /\ trees = <<>>
    /\ router = [kind |-> "none"]
    /\ pending = <<>>
    /\ base = <<>>
    /\ delivered = <<>>
    /\ refDoc = <<>>
    /\ nOps = 0
    /\ lastOp = [op |-> "init"]
    /\ probe \in AdjInputs

\* Check(cp, adj, expected) of AdjustCpTest: one call of CpAdjustCp.
Check ==
    /\ ~probe.done
    /\ probe' = [probe EXCEPT !.result = CpAdjustCp(probe.cp, probe.adj, probe.stick),
                              !.done = TRUE]
    /\ lastOp' = [op |-> "CpAdjustCp"]
    /\ UNCHANGED <<trees, router, pending, base, delivered, refDoc, nOps>>

AdjNext == Check

SpecAdj == AdjInit /\ [][AdjNext]_vars

(***************************************************************************)
(* SimpleLoopbackRouter with a queue: maxQueueLength is a public field the *)
(* owner of the router may set before the tree is attached (Router.h)      *)
(***************************************************************************)
QueueInit ==
    /\ trees = [c \in {LoopbackClientId} |-> NewMergeTree(LoopbackClientId)]
    /\ router \in {[kind |-> "loopback", seq |-> 0, queue |-> <<>>, maxQueueLength |-> n] :
                      n \in 0..MaxQueueLength}
    /\ pending = <<>>
    /\ base = <<>>
    /\ delivered = <<>>
    /\ refDoc = <<>>
    /\ nOps = 0
    /\ lastOp = [op |-> "init"]
    /\ probe = NoProbe

\* doc.Replace(cp, dcp, text) with a text of len characters; delivered grows
\* by the messages the listener received inside Send.
QueueReplace(cp, dcp, len) ==
    /\ Running
    /\ nOps < MaxQueueOps
    /\ LET text == TextOf(nOps + 1, len)
           Issued(sent) ==
               /\ trees' = [trees EXCEPT ![LoopbackClientId] = sent.T]
               /\ router' = sent.router
               /\ delivered' = delivered \o sent.log
       IN /\ Issued(LoopbackSendOp(router, Replace(Doc, cp, dcp, text, 0)))
          /\ refDoc' = StringReplace(refDoc, cp, dcp, text)
    /\ nOps' = nOps + 1
    /\ lastOp' = [op |-> "Replace", cp |-> cp, dcp |-> dcp, len |-> len]
    /\ pending' = Append(pending, "Replace")
    /\ UNCHANGED <<base, probe>>

QueueNext ==
    \E cp \in 0..CpMac(Doc) :
        \E dcp \in 0..Min2(MaxQueueDcp, CpMac(Doc) - cp) :
            \E len \in {0, TextLen} : QueueReplace(cp, dcp, len)

SpecQueue == QueueInit /\ [][QueueNext]_vars

(***************************************************************************)
(* Both reference routers: the multi-client runs and the queued loopback   *)
(* runs side by side                                                       *)
(***************************************************************************)
RoutersInit == MultiInit \/ QueueInit

RoutersNext ==
    \/ router.kind = "multi" /\ MultiNext
    \/ router.kind = "loopback" /\ QueueNext

SpecRouters == RoutersInit /\ [][RoutersNext]_vars

(***************************************************************************)
(* What the properties read                                                *)
(***************************************************************************)
\* The blocks of a tree.
Blocks(T) == {n \in DOMAIN T.heap : ~T.heap[n].isLeaf}

\* (P1) of checkBlockInvariants: the stored partial lengths are the recomputed ones.
P1(T) == \A b \in Blocks(T) : T.heap[b].lengths = recomputeLengthsSlow(T, T.heap[b])

\* (P2) of checkBlockInvariants: the stored stats are the recomputed ones.
\* recomputeStatsSlow reads children[0], so the empty root is left to the
\* second conjunct alone.
P2(T) ==
    \A b \in Blocks(T) :
        /\ ChildCount(T.heap[b]) > 0 => T.heap[b].stats = recomputeStatsSlow(T, T.heap[b])
        /\ T.heap[b].stats.depthMax >= T.heap[b].stats.depthMin

\* (P3) of checkBlockInvariants: the first ChildCount slots hold the children,
\* each pointing back at its block and slot; the other slots are empty.
P3(T) ==
    \A b \in Blocks(T) :
        \A i \in 0..(MaxNodesInBlock - 1) :
            LET child == At(T.heap[b].children, i)
            IN IF i < ChildCount(T.heap[b])
               THEN /\ child \in DOMAIN T.heap
                    /\ T.heap[child].parent = b
                    /\ T.heap[child].index = i
               ELSE child = 0

(***************************************************************************)
(* C1..C10                                                                 *)
(***************************************************************************)
\* C1: once PumpMessages has delivered every sent message to every client,
\* all the trees decode to the same character sequence.
Convergence ==
    (Running /\ router.msgs = <<>>)
        => \A c, d \in Clients : AssertDoc(trees[c]) = AssertDoc(trees[d])

\* The calls made so far: one ReloadFromSegments, then Replace calls only.
OnlyReloadThenReplace ==
    /\ pending # <<>>
    /\ pending[1] = "ReloadFromSegments"
    /\ \A i \in 2..Len(pending) : pending[i] = "Replace"

\* C2: with the loopback router delivering at once, after ReloadFromSegments
\* and any sequence of Replace calls the decoded document is the string
\* reference, and CpMac is its length.
ReplaceMatchesReference ==
    (Running /\ OnlyReloadThenReplace)
        => (AssertDoc(Doc) = refDoc /\ CpMac(Doc) = Len(refDoc))

\* C3: in every reachable tree state the Fetch walk from 0 terminates, ends
\* with cp = CpMac, and its runs concatenate to the text of exactly the
\* visible segments.
FetchRoundTrip ==
    Running =>
        LET w == FetchWalk(Doc, 0)
        IN /\ w.ok
           /\ w.cp = CpMac(Doc)
           /\ w.doc = VisibleText(Doc)

\* C4: after every public operation returns, every block's stored partial
\* lengths equal the vector recomputed from its children (P1).
PartialLengthsRecomputed == Running => P1(Doc)

\* C5: after every public operation returns, every block's stored stats equal
\* recomputeStatsSlow of that block, and depthMax >= depthMin (P2).
StatsRecomputed == Running => P2(Doc)

\* C6: after every public operation returns, every block's first ChildCount
\* slots hold children that point back at the block and their slot, and the
\* other slots are empty (P3).
BackPointersAndSlots == Running => P3(Doc)

\* A leaf split, a block split and root growth by Replace on a full root over
\* full blocks, then a rebuild by the arborist: a segment shorter than
\* TextLen is a half of a split one.
BackPointersWitness ==
    /\ Running
    /\ pending = <<"ReloadFromSegments", "Replace", "RunMaintenance">>
    /\ lastOp.op = "RunMaintenance"
    /\ lastOp.rebuilt
    /\ ChildCount(Doc.heap[Doc.root]) = MaxNodesInBlock
    /\ \E n \in DOMAIN Doc.heap : Doc.heap[n].isLeaf /\ Doc.heap[n].length < TextLen
    /\ P3(Doc)

\* C7: CpAdjustCp returns p when p < cp or dcp = 0; for dcp < 0, p + dcp when
\* p > cp - dcp and cp otherwise; for dcp > 0, p + dcp when p > cp, and at
\* p = cp, p + dcp under Right stickiness and p under Left stickiness.
AdjustmentLaw ==
    probe.done =>
        LET p == probe.cp
            cp == probe.adj.cp
            dcp == probe.adj.dcp
        IN /\ (p < cp \/ dcp = 0) => probe.result = p
           /\ (p >= cp /\ dcp < 0 /\ p > cp - dcp) => probe.result = p + dcp
           /\ (p >= cp /\ dcp < 0 /\ p <= cp - dcp) => probe.result = cp
           /\ (p > cp /\ dcp > 0) => probe.result = p + dcp
           /\ (p = cp /\ dcp > 0 /\ probe.stick = "Right") => probe.result = p + dcp
           /\ (p = cp /\ dcp > 0 /\ probe.stick = "Left") => probe.result = p

\* A position inside a deleted range, collapsed to the start of the range.
AdjustmentWitness ==
    /\ probe.done
    /\ probe.adj.dcp < 0
    /\ probe.cp > probe.adj.cp
    /\ probe.cp < probe.adj.cp - probe.adj.dcp
    /\ probe.result = probe.adj.cp

\* The calls the last PumpMessages delivered were made by distinct clients
\* that read the same document D when PumpMessages was called before.
DeliveredConcurrent ==
    /\ lastOp.op = "PumpMessages"
    /\ \A i, j \in 1..Len(delivered.ops) :
          i < j => /\ delivered.ops[i].client # delivered.ops[j].client
                   /\ delivered.ops[i].seq < delivered.ops[j].seq
    /\ \A c, d \in Clients : delivered.base[c] = delivered.base[d]

DeliveredBase == delivered.base[MultiClientIdBase]

DeliveredSamePosition ==
    /\ DeliveredConcurrent
    /\ \A i \in 1..Len(delivered.ops) :
          delivered.ops[i].dcp = 0 /\ delivered.ops[i].cp = delivered.ops[1].cp

\* C8: texts inserted at the same position p of a shared document by
\* different clients before any is delivered are read by every client, after
\* PumpMessages, contiguously at p in ascending order of sequence number.
SamePositionInsertsInSeqOrder ==
    (Running /\ DeliveredSamePosition) =>
        LET p == delivered.ops[1].cp
            texts == [i \in 1..Len(delivered.ops) |-> delivered.ops[i].text]
            expected == SubSeqTo(DeliveredBase, p)
                            \o Flatten(texts, 1, Len(texts))
                            \o SubSeqFrom(DeliveredBase, p)
        IN \A c \in Clients : AssertDoc(trees[c]) = expected

\* Two issuers and a bystander, inserting inside a non-empty document.
SamePositionWitness ==
    /\ Running
    /\ DeliveredSamePosition
    /\ Len(delivered.ops) = 2
    /\ delivered.ops[1].cp > 0
    /\ delivered.ops[1].cp < Len(DeliveredBase)
    /\ \E c \in Clients : \A i \in 1..2 : delivered.ops[i].client # c
    /\ \A c \in Clients :
          AssertDoc(trees[c]) =
              SubSeqTo(DeliveredBase, delivered.ops[1].cp)
                  \o delivered.ops[1].text \o delivered.ops[2].text
                  \o SubSeqFrom(DeliveredBase, delivered.ops[1].cp)

\* C9: two clients sharing document D replace non-overlapping ranges of D
\* concurrently; after PumpMessages every client reads D with both ranges
\* replaced, whichever message was sequenced first.
DisjointReplacesBothApply ==
    (/\ Running
     /\ DeliveredConcurrent
     /\ Len(delivered.ops) = 2
     /\ delivered.ops[1].dcp > 0
     /\ delivered.ops[2].dcp > 0
     /\ \/ delivered.ops[1].cp + delivered.ops[1].dcp <= delivered.ops[2].cp
        \/ delivered.ops[2].cp + delivered.ops[2].dcp <= delivered.ops[1].cp)
    => LET a == delivered.ops[1]
           b == delivered.ops[2]
           lo == IF a.cp <= b.cp THEN a ELSE b
           hi == IF a.cp <= b.cp THEN b ELSE a
           expected == StringReplace(StringReplace(DeliveredBase, hi.cp, hi.dcp, hi.text),
                                     lo.cp, lo.dcp, lo.text)
       IN \A c \in Clients : AssertDoc(trees[c]) = expected

\* What a step that is a local Replace of client lastOp'.client does.
LocalReplaceStep ==
    (lastOp'.op = "Replace" /\ nOps' = nOps + 1 /\ \A c \in Clients : trees'[c].failed = "")
    => LET c == lastOp'.client
           text == TextOf(nOps + 1, TextLen)
       IN /\ AssertDoc(trees'[c])
                = StringReplace(AssertDoc(trees[c]), lastOp'.cp, lastOp'.dcp, text)
          /\ \A d \in Clients \ {c} : trees'[d] = trees[d]
          /\ trees'[c].m_edits = trees[c].m_edits
          /\ Len(trees'[c].m_editsLocal) = Len(trees[c].m_editsLocal) + 1
          /\ Len(router'.msgs) = Len(router.msgs) + 1
          /\ SubSeq(router'.msgs, 1, Len(router.msgs)) = router.msgs
          /\ router'.msgs[Len(router'.msgs)].contents.text = text

\* C10: under the MultiClientRouter a local Replace shows at once in the
\* issuer's decoded document and changes no other client's tree; Send runs
\* no listener: the message is queued and the issuer's edit stays unacked.
OptimisticLocalApplication == [][LocalReplaceStep]_vars

\* A client has replaced part of a delivered document and nothing was pumped:
\* its document differs from the others', which still read the old one.
OptimisticWitness ==
    /\ Running
    /\ lastOp.op = "Replace"
    /\ lastOp.dcp > 0
    /\ Len(router.msgs) = 1
    /\ \A d \in Clients \ {lastOp.client} :
          /\ AssertDoc(trees[d]) = base[d]
          /\ AssertDoc(trees[d]) # AssertDoc(trees[lastOp.client])
    /\ AssertDoc(trees[lastOp.client])
          = StringReplace(base[lastOp.client], lastOp.cp, lastOp.dcp, TextOf(nOps, TextLen))

(***************************************************************************)
(* C11..C20                                                                *)
(***************************************************************************)
\* The two assertions of the acknowledgement branch of OnMessageReceived.
AckAsserts ==
    {"m_editsLocal.front() on an empty queue",
     "assert: msg.clientSequenceNumber == m_editsLocal.front()->seq"}

\* What a PumpMessages step does to the queues of client c: its own messages
\* meet, in order, the edits at the head of its pending-local queue. The
\* queues are read when the pump ran to its end: a listener that fails an
\* assertion ends the run before the later listeners are called.
AckStepMulti ==
    (router.kind = "multi" /\ router.msgs # <<>> /\ router'.msgs = <<>>) =>
        \A c \in Clients :
            LET own == SelectSeq(router.msgs, LAMBDA m : m.clientId = c)
                L == trees[c].m_editsLocal
                acked == Len(trees[c].m_edits)
            IN /\ trees'[c].failed \notin AckAsserts
               /\ (\A d \in Clients : trees'[d].failed = "") =>
                    /\ Len(own) <= Len(L)
                    /\ \A i \in 1..Len(own) :
                          own[i].clientSequenceNumber = trees[c].edits[L[i]].seq
                    /\ trees'[c].m_editsLocal = SubSeqFrom(L, Len(own))
                    /\ Len(trees'[c].m_edits) = acked + Len(router.msgs)
                    /\ \A k \in 1..Len(router.msgs) :
                          router.msgs[k].clientId = c =>
                            LET j == Cardinality({i \in 1..k : router.msgs[i].clientId = c})
                            IN /\ trees'[c].m_edits[acked + k] = L[j]
                               /\ trees'[c].edits[L[j]].seq = router.msgs[k].sequenceNumber

\* What a Replace step under the loopback router does to the queues: the
\* messages the listener received inside Send meet, in order, the pending
\* edits, the one of this Replace last.
AckStepLoopback ==
    (router.kind = "loopback" /\ nOps' = nOps + 1) =>
        LET T == trees[LoopbackClientId]
            T1 == trees'[LoopbackClientId]
            log == SubSeqFrom(delivered', Len(delivered))
            L == Append(T.m_editsLocal, T.nextEdit)
            seqOf(e) == IF e = T.nextEdit THEN T.clientSeqNext ELSE T.edits[e].seq
            n == Len(log)
        IN /\ T1.failed \notin AckAsserts
           /\ T1.failed = "" =>
                /\ n <= Len(L)
                /\ \A i \in 1..n :
                      /\ log[i].clientId = LoopbackClientId
                      /\ log[i].clientSequenceNumber = seqOf(L[i])
                /\ T1.m_editsLocal = SubSeqFrom(L, n)
                /\ n >= 1 =>
                      /\ T1.m_edits # <<>>
                      /\ T1.m_edits[Len(T1.m_edits)] = L[n]
                      /\ T1.edits[L[n]].seq = log[n].sequenceNumber

\* C11: whenever a client receives a sequenced message with its own client
\* id, its pending-local queue is non-empty and the message's
\* clientSequenceNumber is the seq of the head; the head moves to the tail of
\* the acknowledged queue with the assigned sequenceNumber as its seq and the
\* pending-local queue shrinks by one, under both routers.
AcksAreFifo == [][AckStepMulti /\ AckStepLoopback]_vars

\* One PumpMessages acknowledged two pending edits of one client, in order,
\* with a message of another client sequenced between them.
AcksWitness ==
    /\ router.kind = "multi"
    /\ Running
    /\ lastOp.op = "PumpMessages"
    /\ Len(delivered.ops) = 3
    /\ delivered.ops[1].client = delivered.ops[3].client
    /\ delivered.ops[2].client # delivered.ops[1].client
    /\ LET T == trees[delivered.ops[1].client]
       IN /\ T.m_editsLocal = <<>>
          /\ Len(T.m_edits) = 3
          /\ T.edits[T.m_edits[1]].seq = delivered.ops[1].seq
          /\ T.edits[T.m_edits[3]].seq = delivered.ops[3].seq
          /\ T.edits[T.m_edits[1]].client = T.clientLocal
          /\ T.edits[T.m_edits[3]].client = T.clientLocal

\* What a local Replace under the loopback router does on the sending side:
\* one Edit joins the pending-local queue and one Message goes through the
\* router, carrying the Edit's seq and the seq of the last acknowledged edit.
DispatchStep ==
    (router.kind = "loopback" /\ nOps' = nOps + 1) =>
        LET T == trees[LoopbackClientId]
            T1 == trees'[LoopbackClientId]
            log == SubSeqFrom(delivered', Len(delivered))
            through == log \o router'.queue
        IN /\ T1.failed = ""
           /\ T1.nextEdit = T.nextEdit + 1
           /\ Len(T1.m_editsLocal) + Len(log) = Len(T.m_editsLocal) + 1
           /\ router'.seq = router.seq + 1
           /\ through # <<>>
           /\ SubSeqTo(through, Len(through) - 1) = router.queue
           /\ LET msg == through[Len(through)]
              IN /\ msg.sequenceNumber = router.seq
                 /\ msg.clientSequenceNumber = T.clientSeqNext
                 /\ msg.referenceSequenceNumber =
                        (IF T.m_edits = <<>> THEN SeqUniversal
                         ELSE T.edits[T.m_edits[Len(T.m_edits)]].seq)
                 /\ msg.contents.pos1 = lastOp'.cp
                 /\ msg.contents.pos2 = lastOp'.cp + lastOp'.dcp
                 /\ msg.contents.text = TextOf(nOps + 1, lastOp'.len)
           /\ Len(T1.m_editsLocal) = Len(router'.queue)

\* C12: every local Replace(cp, dcp, text) with dcp >= 0, whatever the text,
\* appends exactly one Edit to the pending-local queue and sends exactly one
\* Message with that Edit's seq and the seq of the last acknowledged edit
\* (Universal when there is none); no pending-local Edit lacks its message.
EveryLocalEditDispatched == [][DispatchStep]_vars

\* The dead segments under block b.
DeadSegments(T, b) ==
    {n \in Descendants(T.heap, b) : T.heap[n].isLeaf /\ T.heap[n].isDead}

\* The acknowledged queue after the listener received a message with
\* minimumSequenceNumber minSeq and sequenceNumber seq from its own client.
SettledQueue(T, minSeq, seq) ==
    /\ \A i \in 1..Len(T.m_edits) : ~ULess(T.edits[T.m_edits[i]].seq, minSeq)
    /\ \E i \in 1..Len(T.m_edits) : T.edits[T.m_edits[i]].seq = seq

\* No segment names a dropped edit as the one that added it.
SettledAdded(T) ==
    \A n \in DOMAIN T.heap :
        T.heap[n].isLeaf => T.heap[n].edAdded \in {0} \cup DOMAIN T.edits

\* A segment removed by a dropped edit is dead, and a block counts each dead
\* segment under it once.
SettledRemoved(T) ==
    /\ \A n \in DOMAIN T.heap :
          (T.heap[n].isLeaf /\ T.heap[n].edRemoved \notin {0} \cup DOMAIN T.edits)
              => T.heap[n].isDead
    /\ \A b \in Blocks(T) :
          T.heap[b].stats.cDeadSegments = Cardinality(DeadSegments(T, b))

\* C13: after OnMessageReceived(m) returns, the acknowledged queue holds no
\* edit with seq < m.minimumSequenceNumber and every one with a seq at or
\* above it; a segment added by a dropped edit has an empty edAdded; a segment
\* removed by a dropped edit is dead and counted once in cDeadSegments of
\* each of its ancestors.
Settlement ==
    (router.kind = "loopback" /\ Running /\ delivered # <<>>) =>
        LET m == delivered[Len(delivered)]
        IN /\ SettledQueue(Doc, m.minimumSequenceNumber, m.sequenceNumber)
           /\ SettledAdded(Doc)
           /\ SettledRemoved(Doc)

\* A step that is a call of RunMaintenance with keepGoing = true returns, and
\* with a root that is not unbalanced.
ArboristReturns ==
    (Running /\ lastOp'.op = "RunMaintenance" /\ lastOp'.fKeepGoing) =>
        /\ trees'[LoopbackClientId].failed = ""
        /\ ~IsUnbalanced(trees'[LoopbackClientId].heap[trees'[LoopbackClientId].root])

\* C14: RunMaintenance called with keepGoing = true terminates from every
\* reachable tree, and when it returns the root is not unbalanced under the
\* stored stats.
ArboristTerminates == [][ArboristReturns]_vars

\* The segments of a tree that are not dead, in document order.
LiveSegments(T) ==
    SelectSeq(EnumerateSegments(T.heap, T.root), LAMBDA n : ~T.heap[n].isDead)

\* What RunMaintenance has to keep of a tree whose segments that are not
\* dead are `live`.
MaintainedOf(T, live) ==
    [cpMac |-> CpMac(T), doc |-> FetchWalk(T, 0),
     segments |-> [i \in 1..Len(live) |-> [T.heap[live[i]] EXCEPT !.parent = 0, !.index = 0]],
     order |-> live,
     m_edits |-> T.m_edits, m_editsLocal |-> T.m_editsLocal, edits |-> T.edits]

Maintained(T) == MaintainedOf(T, LiveSegments(T))

\* A call of RunMaintenance that returns keeps the document, the segments
\* that are not dead and both queues.
MaintenanceStep ==
    (Running /\ lastOp'.op = "RunMaintenance" /\ trees'[LoopbackClientId].failed = "") =>
        Maintained(trees'[LoopbackClientId]) = Maintained(Doc)

\* C15: for either value of keepGoing, RunMaintenance leaves CpMac and the
\* decoded characters unchanged, keeps every segment that is not dead in
\* its relative order, and leaves both edit queues unchanged.
MaintenancePreservesDocument == [][MaintenanceStep]_vars

\* C16: after RunMaintenance(keepGoing = true) has returned, no dead segment
\* remains in the tree and every block's cDeadSegments is 0.
NoLeakedDeadSegments ==
    (Running /\ lastOp.op = "RunMaintenance" /\ lastOp.fKeepGoing) =>
        /\ DeadSegments(Doc, Doc.root) = {}
        /\ \A b \in Descendants(Doc.heap, Doc.root) :
              ~Doc.heap[b].isLeaf => Doc.heap[b].stats.cDeadSegments = 0

\* C17: a tree with a settled and dropped removing edit and a tree reloaded
\* from its visible text take the same valid Replace calls with non-empty
\* text to the same CpMac and the same decoded document after every call.
AgedOutHistoryUnobservable ==
    (ReloadedTree \in DOMAIN trees) =>
        /\ (Doc.failed = "") = (Reloaded.failed = "")
        /\ Running => /\ CpMac(Doc) = CpMac(Reloaded)
                       /\ FetchWalk(Doc, 0) = FetchWalk(Reloaded, 0)

\* C18: after each of 500 successive Replace(CpMac, 0, "a") calls on an empty
\* tree with an immediate loopback router the decoded document is that many
\* 'a' characters, P1-P3 hold for every block, and the root satisfies
\* depthMax - depthMin <= 2.
AppendScenario ==
    /\ Running
    /\ CpMac(Doc) = nOps
    /\ FetchWalk(Doc, 0) = [ok |-> TRUE, cp |-> nOps, doc |-> [i \in 1..nOps |-> AppendText[1]]]
    /\ P1(Doc) /\ P2(Doc) /\ P3(Doc)
    /\ ~IsUnbalanced(Doc.heap[Doc.root])

\* All the appends are made, through splits of blocks and of the root.
AppendWitness ==
    /\ nOps = MaxAppends
    /\ Running
    /\ AssertDoc(Doc) = [i \in 1..MaxAppends |-> AppendText[1]]
    /\ ~Doc.heap[At(Doc.heap[Doc.root].children, 0)].isLeaf
    /\ ChildCount(Doc.heap[Doc.root]) > 2

\* A local Replace hands one message to the router, which gives it the next
\* sequence number and the client id of the sending endpoint.
SendStepMulti ==
    (Running /\ router.kind = "multi" /\ lastOp'.op = "Replace" /\ router' # router) =>
        /\ router'.seq = router.seq + 1
        /\ Len(router'.msgs) = Len(router.msgs) + 1
        /\ SubSeq(router'.msgs, 1, Len(router.msgs)) = router.msgs
        /\ router'.msgs[Len(router'.msgs)].sequenceNumber = router.seq
        /\ router'.msgs[Len(router'.msgs)].clientId = lastOp'.client
        /\ \A i \in 1..Len(router.msgs) : router.msgs[i].sequenceNumber < router.seq

\* The calls of OnMessageReceived a PumpMessages with the buffer msgs makes:
\* message by message, and for each message listener by listener.
MessageMajor(msgs) ==
    [n \in 1..(Len(msgs) * Len(Listeners)) |->
        [listener |-> Listeners[((n - 1) % Len(Listeners)) + 1],
         sequenceNumber |-> msgs[((n - 1) \div Len(Listeners)) + 1].sequenceNumber]]

\* PumpMessages delivers the buffer in that order and empties it, so that
\* the next PumpMessages has nothing to deliver.
PumpStepMulti ==
    (Running /\ router.kind = "multi" /\ lastOp'.op = "PumpMessages"
             /\ \A c \in Clients : trees'[c].failed = "") =>
        /\ delivered'.log = MessageMajor(router.msgs)
        /\ \A i, j \in 1..Len(router.msgs) :
              i < j => router.msgs[i].sequenceNumber < router.msgs[j].sequenceNumber
        /\ router'.msgs = <<>>
        /\ router'.seq = router.seq
        /\ PumpLogged([trees |-> trees', log |-> <<>>], router'.msgs).log = <<>>

\* C19: every message sent through a MultiClientRouter gets a sequence number
\* of its own, increasing in Send order across the endpoints, and the client
\* id of its endpoint; PumpMessages delivers every buffered message once to
\* every listener, each message to all listeners before the next message to
\* any, and leaves the buffer empty.
TotalOrderExactlyOnce == [][SendStepMulti /\ PumpStepMulti]_vars

\* A PumpMessages delivered two messages of different clients to every listener.
TotalOrderWitness ==
    /\ router.kind = "multi"
    /\ Running
    /\ lastOp.op = "PumpMessages"
    /\ Len(delivered.log) = 2 * NumClients
    /\ Len(delivered.ops) = 2
    /\ delivered.ops[1].client # delivered.ops[2].client
    /\ delivered.log[1].sequenceNumber = delivered.log[NumClients].sequenceNumber
    /\ delivered.log[1].sequenceNumber < delivered.log[NumClients + 1].sequenceNumber

\* The messages a SimpleLoopbackRouter was sent: those delivered, in the order
\* of delivery, then those still in the queue.
LoopbackSent == delivered \o router.queue

\* C20: the k-th Send (k = 0, 1, ...) to a SimpleLoopbackRouter is given
\* sequenceNumber k and minimumSequenceNumber k; the listener receives the
\* messages in that order; when Send returns at most maxQueueLength messages
\* are undelivered, none with maxQueueLength = 0.
LoopbackFifo ==
    router.kind = "loopback" =>
        /\ Len(LoopbackSent) = router.seq
        /\ \A k \in 0..(router.seq - 1) :
              /\ LoopbackSent[k + 1].sequenceNumber = k
              /\ LoopbackSent[k + 1].minimumSequenceNumber = k
              /\ LoopbackSent[k + 1].clientId = LoopbackClientId
        /\ Running => Len(router.queue) = Min2(router.seq, router.maxQueueLength)

\* A router with maxQueueLength 2 after four Sends: two messages delivered,
\* two in the queue.
LoopbackFifoWitness ==
    /\ router.kind = "loopback"
    /\ Running
    /\ router.maxQueueLength = 2
    /\ router.seq = 4
    /\ Len(delivered) = 2
    /\ Len(router.queue) = 2
    /\ Len(Doc.m_editsLocal) = 2

\* A call of OnMessageReceived with a sequenceNumber that is not greater than
\* the last one received fails an assertion and leaves the tree as it was.
RejectedStep ==
    (Running /\ lastOp'.op = "OnMessageReceived") =>
        /\ trees'[lastOp'.client].failed # ""
        /\ trees'[lastOp'.client] =
              [trees[lastOp'.client] EXCEPT !.failed = trees'[lastOp'.client].failed]

\* C21: OnMessageReceived invoked with a message whose sequenceNumber is not
\* strictly greater than that of the message received before reaches a fatal
\* assertion failure, and neither edit queue nor the tree is modified.
OutOfOrderRejected == [][RejectedStep]_vars

\* C22 as stated: isAcked() is true for every value in [1 .. 2^31] and false
\* for every value in [2^31+1 .. 2^32-2]; Universal is 0, Invalid is 2^32-1
\* and LocalFirst is 2^31+1.
SeqRegionsAsStated ==
    probe.done =>
        /\ (1 <= probe.seq \/ probe.seq = HighHalf(0)) => probe.acked
        /\ (HighHalf(1) <= probe.seq /\ probe.seq <= HighHalf(Int32Max - 1)) => ~probe.acked
        /\ SeqUniversal = 0
        /\ SeqInvalid = HighHalf(Int32Max)
        /\ SeqLocalFirst = HighHalf(1)

\* C22, amended: isAcked() is true for every value in [1 .. 2^31-1] and false
\* for every value in [2^31 .. 2^32-2]; Universal is 0, Invalid is 2^32-1
\* and LocalFirst is 2^31.
SeqRegions ==
    probe.done =>
        /\ (1 <= probe.seq) => probe.acked
        /\ (HighHalf(0) <= probe.seq /\ probe.seq <= HighHalf(Int32Max - 1)) => ~probe.acked
        /\ SeqUniversal = 0
        /\ SeqInvalid = HighHalf(Int32Max)
        /\ SeqLocalFirst = HighHalf(0)
        /\ SeqMax = HighHalf(Int32Max - 1)

\* isAcked was called on 2^31, the first value that is not acknowledged.
SeqRegionsWitness ==
    /\ probe.done
    /\ probe.seq = SeqLocalFirst
    /\ ~probe.acked

\* C23: after every public operation returns, every block but the root has
\* at least two children.
OnlyRootSparse ==
    Running =>
        \A b \in Descendants(Doc.heap, Doc.root) :
            (~Doc.heap[b].isLeaf /\ b # Doc.root) => ChildCount(Doc.heap[b]) >= 2

\* The text of the segments ss of tree T, in the order given.
TextOfSegments(T, ss) == Flatten([i \in 1..Len(ss) |-> T.heap[ss[i]].text], 1, Len(ss))

\* A Replace(cp, dcp > 0, text) that returns: the segments its Edit removed
\* hold the text that was visible in [cp, cp + dcp), and no segment that was
\* tombstoned or dead before the call has its edRemoved changed or is among
\* them.
TombstoneStep ==
    (Running /\ lastOp'.op = "Replace" /\ lastOp'.dcp > 0
             /\ trees'[LoopbackClientId].failed = "") =>
        LET T == Doc
            T1 == trees'[LoopbackClientId]
            removed == T1.edits[T.nextEdit].segmentsRemoved
            gone == {n \in DOMAIN T.heap :
                        T.heap[n].isLeaf /\ (T.heap[n].isDead \/ IsRemoved(T, T.heap[n]))}
        IN /\ TextOfSegments(T1, removed)
                = SubSeq(VisibleText(T), lastOp'.cp + 1, lastOp'.cp + lastOp'.dcp)
           /\ \A n \in gone :
                 /\ n \in DOMAIN T1.heap => T1.heap[n].edRemoved = T.heap[n].edRemoved
                 /\ \A i \in 1..Len(removed) : removed[i] # n

\* C24: Replace(cp, dcp > 0, text) marks as removed exactly the segments that
\* were visible in [cp, cp + dcp) before the call; a segment already
\* tombstoned or dead is skipped, keeps its edRemoved and is not appended to
\* another edit's segmentsRemoved.
TombstonesOnlyVisible == [][TombstoneStep]_vars

\* A local Replace(cp, dcp, text) that returns: its Edit records the
\* adjustment (cp, |text| - dcp), and CpMac moved by that much.
AdjustmentStep ==
    (Running /\ lastOp'.op = "Replace" /\ trees'[LoopbackClientId].failed = "") =>
        /\ trees'[LoopbackClientId].edits[Doc.nextEdit].adjustment
              = [cp |-> lastOp'.cp, dcp |-> lastOp'.len - lastOp'.dcp]
        /\ CpMac(trees'[LoopbackClientId]) = CpMac(Doc) + (lastOp'.len - lastOp'.dcp)

\* C25: for every Replace on a valid range the edit's adjustment is set to
\* (cp, text.length - dcp), and CpMac after the call equals CpMac before the
\* call plus that adjustment's dcp.
AdjustmentIsRealEffect == [][AdjustmentStep]_vars

\* The range of remote message m in the local coordinates of tree T.
TranslatedRange(T, m) ==
    TardisServerRangeToLocal(T,
        TardisRangeToServerTip(T, <<m.contents.pos1, m.contents.pos2>>,
                               m.referenceSequenceNumber, m.clientId).cps)

\* What a PumpMessages whose first message is the only one that is remote to
\* client c does to the pending-local edits of c, the remote edit being
\* applied at [cp0, cp1) and the positions from `pivot` on being shifted.
RebasedFrom(c, cp0, cp1, pivot) ==
    \A i \in 1..Len(trees[c].m_editsLocal) :
        LET e == trees[c].m_editsLocal[i]
            old == trees[c].edits[e]
            new == trees'[c].edits[e]
        IN /\ new.adjustment.cp =
                 IF old.adjustment.cp < pivot THEN old.adjustment.cp
                 ELSE old.adjustment.cp + (cp1 - cp0) + Len(router.msgs[1].contents.text)
           /\ new.adjustment.dcp = old.adjustment.dcp
           /\ new.segmentsAdded = old.segmentsAdded
           /\ new.segmentsRemoved = old.segmentsRemoved
           /\ new.client = old.client
           /\ (\E j \in 1..Len(trees'[c].m_editsLocal) : trees'[c].m_editsLocal[j] = e)
                 => new.seq = old.seq

\* The clients to which the first message of the buffer is the only remote one.
OneRemoteFirst ==
    {c \in Clients :
        /\ router.msgs # <<>>
        /\ {k \in 1..Len(router.msgs) : router.msgs[k].clientId # c} = {1}}

RebaseStepAsStated ==
    (Running /\ lastOp'.op = "PumpMessages" /\ \A d \in Clients : trees'[d].failed = "") =>
        \A c \in OneRemoteFirst :
            RebasedFrom(c, TranslatedRange(trees[c], router.msgs[1])[1],
                        TranslatedRange(trees[c], router.msgs[1])[2],
                        TranslatedRange(trees[c], router.msgs[1])[1])

\* C26: after a remote edit was applied at the translated range
\* [cp0, cp1) inserting t, every pending-local edit's adjustment.cp p is
\* CpAdjustCp(p, (cp0, (cp1 - cp0) + |t|), Right): unchanged before cp0,
\* shifted by (cp1 - cp0) + |t| from cp0 on; its adjustment.dcp, seq and
\* segment lists are unchanged.
RebaseFromRangeStart == [][RebaseStepAsStated]_vars

\* The tree T after the first k messages of msgs were handed to it.
RECURSIVE AfterMessages(_, _, _)
AfterMessages(T, msgs, k) ==
    IF k = 0 THEN T
    ELSE OnMessageReceived(AfterMessages(T, msgs, k - 1), msgs[k])

\* The visible segments of T that a pending-local edit added, in document
\* order, each with its edit and its text.
PendingLocalText(T) ==
    LET segs == SelectSeq(EnumerateSegments(T.heap, T.root),
                    LAMBDA n : /\ ~T.heap[n].isDead
                               /\ ~IsRemoved(T, T.heap[n])
                               /\ \E i \in 1..Len(T.m_editsLocal) :
                                      T.m_editsLocal[i] = T.heap[n].edAdded)
    IN [i \in 1..Len(segs) |-> [ed |-> T.heap[segs[i]].edAdded,
                                text |-> T.heap[segs[i]].text]]

\* For every visible character of T, whether a pending-local edit added it.
PendingLocalChars(T) ==
    LET segs == SelectSeq(EnumerateSegments(T.heap, T.root),
                    LAMBDA n : ~T.heap[n].isDead /\ ~IsRemoved(T, T.heap[n]))
    IN Flatten([i \in 1..Len(segs) |->
                   [j \in 1..T.heap[segs[i]].length |->
                       \E e \in 1..Len(T.m_editsLocal) :
                           T.m_editsLocal[e] = T.heap[segs[i]].edAdded]],
               1, Len(segs))

\* The pending-local edits of T are insertions that removed nothing.
OnlyPendingInsertions(T) ==
    /\ T.m_editsLocal # <<>>
    /\ \A i \in 1..Len(T.m_editsLocal) :
          /\ T.edits[T.m_editsLocal[i]].segmentsRemoved = <<>>
          /\ T.edits[T.m_editsLocal[i]].segmentsAdded # <<>>

\* The position of remote insert m at the server tip, as T translates it.
ServerTipPosition(T, m) ==
    TardisRangeToServerTip(T, <<m.contents.pos1, m.contents.pos1>>,
                           m.referenceSequenceNumber, m.clientId).cps[1]

\* Remote insert m arrives at T at the position of the oldest pending-local
\* insertion of T.
CoincidesWithPending(T, m) ==
    /\ T.failed = ""
    /\ m.clientId # T.clientLocal
    /\ m.contents.type = "Insert"
    /\ m.contents.pos2 \in {CpInvalid, m.contents.pos1}
    /\ m.contents.text # <<>>
    /\ OnlyPendingInsertions(T)
    /\ ServerTipPosition(T, m) = T.edits[Head(T.m_editsLocal)].adjustment.cp

\* The start in T's document of the run of pending-local text that the
\* character at q ends: the characters directly before q that pending-local
\* edits added are skipped.
RECURSIVE RunStart(_, _)
RunStart(chars, q) ==
    IF q > 0 /\ chars[q] THEN RunStart(chars, q - 1) ELSE q

\* The start of the pending-local text of T that contains the first
\* character the oldest pending-local edit added.
LocalTextStart(T) ==
    LET first == Head(T.m_editsLocal)
        segs == SelectSeq(EnumerateSegments(T.heap, T.root),
                    LAMBDA n : ~T.heap[n].isDead /\ ~IsRemoved(T, T.heap[n]))
        at == CHOOSE i \in 1..Len(segs) :
                  /\ T.heap[segs[i]].edAdded = first
                  /\ \A j \in 1..(i - 1) : T.heap[segs[j]].edAdded # first
        before == Len(Flatten([i \in 1..Len(segs) |-> T.heap[segs[i]].text], 1, at - 1))
    IN RunStart(PendingLocalChars(T), before)

\* T2 is T1 with text t put directly to the left of that pending-local text,
\* the pending-local text being in the same segments in the same order.
LandedBefore(T1, T2, t) ==
    /\ AssertDoc(T2) = SubSeqTo(AssertDoc(T1), LocalTextStart(T1)) \o t
                            \o SubSeqFrom(AssertDoc(T1), LocalTextStart(T1))
    /\ PendingLocalText(T2) = PendingLocalText(T1)

RemoteLandsStep ==
    (Running /\ lastOp'.op = "PumpMessages" /\ \A d \in Clients : trees'[d].failed = "") =>
        \A c \in Clients : \A k \in 1..Len(router.msgs) :
            CoincidesWithPending(AfterMessages(trees[c], router.msgs, k - 1), router.msgs[k])
                => LandedBefore(AfterMessages(trees[c], router.msgs, k - 1),
                                AfterMessages(trees[c], router.msgs, k),
                                router.msgs[k].contents.text)

\* C27: when a client holds pending local insertions and receives a remote
\* insert whose server-tip position is the position of a pending local
\* insertion, the remote text is placed directly to the left of the locally
\* inserted text in that client's document, and the local text is neither
\* split nor reordered.
RemoteLandsBeforePending == [][RemoteLandsStep]_vars

RemoteLandsWitness ==
    /\ Running
    /\ lastOp.op = "PumpMessages"
    /\ \A c \in Clients : trees[c].failed = ""
    /\ Len(delivered.ops) = 3
    /\ delivered.ops[1].client # delivered.ops[2].client
    /\ delivered.ops[3].client = delivered.ops[2].client
    /\ \A c, d \in Clients : delivered.base[c] = delivered.base[d]
    /\ \A i \in 1..3 : delivered.ops[i].dcp = 0 /\ delivered.ops[i].cp = delivered.ops[1].cp
    /\ AssertDoc(trees[delivered.ops[2].client]) =
          SubSeqTo(delivered.base[delivered.ops[2].client], delivered.ops[1].cp)
              \o delivered.ops[1].text \o delivered.ops[3].text \o delivered.ops[2].text
              \o SubSeqFrom(delivered.base[delivered.ops[2].client], delivered.ops[1].cp)

\* The edits tree T holds in its two queues.
QueuedEdits(T) ==
    {T.m_edits[i] : i \in 1..Len(T.m_edits)}
        \cup {T.m_editsLocal[i] : i \in 1..Len(T.m_editsLocal)}

\* The segments that hang in tree T.
SegmentsInTree(T) ==
    LET segs == EnumerateSegments(T.heap, T.root)
    IN {segs[i] : i \in 1..Len(segs)}

\* The two segment lists of every queued edit of T and the edAdded and
\* edRemoved references of the segments in T name each other.
BackReferencesOf(T, inTree) ==
    \A e \in QueuedEdits(T) :
        /\ e \in DOMAIN T.edits
        /\ \A i \in 1..Len(T.edits[e].segmentsAdded) :
              /\ T.edits[e].segmentsAdded[i] \in inTree
              /\ Lock(T, T.heap[T.edits[e].segmentsAdded[i]].edAdded) = e
        /\ \A i \in 1..Len(T.edits[e].segmentsRemoved) :
              /\ T.edits[e].segmentsRemoved[i] \in inTree
              /\ Lock(T, T.heap[T.edits[e].segmentsRemoved[i]].edRemoved) = e
        /\ \A n \in inTree :
              /\ Lock(T, T.heap[n].edAdded) = e
                    => \E i \in 1..Len(T.edits[e].segmentsAdded) :
                          T.edits[e].segmentsAdded[i] = n
              /\ Lock(T, T.heap[n].edRemoved) = e
                    => \E i \in 1..Len(T.edits[e].segmentsRemoved) :
                          T.edits[e].segmentsRemoved[i] = n

\* C28: in every reachable state, for every Edit E held in either queue,
\* each segment of E.segmentsAdded is in the tree with edAdded == E, each
\* segment of E.segmentsRemoved is in the tree with edRemoved == E, and every
\* segment in the tree whose edAdded or edRemoved refers to E is in the
\* corresponding list of E.
BackReferencesConsistent ==
    \A c \in DOMAIN trees :
        trees[c].failed = "" => BackReferencesOf(trees[c], SegmentsInTree(trees[c]))

\* The failures of adopt, split and ensureExtraCapacity for want of room.
CapacityFailures ==
    {"out of bounds: adopt on a full block",
     "assert: parent->ChildCount() < MaxNodesInBlock",
     "assert: split == ChildCount()",
     "assert: this->index + 1 < MaxNodesInBlock",
     "assert: cNew <= MaxNodesInBlock / 2"}

\* No block of T has more than MaxNodesInBlock children or a child beyond
\* the count of its partial lengths.
BlocksWithinCapacity(T) ==
    \A n \in DOMAIN T.heap :
        ~T.heap[n].isLeaf =>
            /\ ChildCount(T.heap[n]) <= MaxNodesInBlock
            /\ \A i \in 1..MaxNodesInBlock :
                  i > ChildCount(T.heap[n]) => T.heap[n].children[i] = 0

\* C29: in every sequence of Replace and remote applications adopt is only
\* invoked on a block with fewer than MaxNodesInBlock children and split only
\* on a full block whose parent has a free slot (after ensureExtraCapacity(1)
\* the segment's parent has a free slot), so no block ever holds more than
\* MaxNodesInBlock children and no partial-length count exceeds it.
CapacityReserved ==
    \A c \in DOMAIN trees :
        /\ trees[c].failed \notin CapacityFailures
        /\ trees[c].failed = "" => BlocksWithinCapacity(trees[c])

CapacityWitness ==
    /\ Running
    /\ lastOp.op = "Replace"
    /\ Doc.failed = ""
    /\ ChildCount(Doc.heap[Doc.root]) = 2
    /\ ~Doc.heap[At(Doc.heap[Doc.root].children, 0)].isLeaf
    /\ ChildCount(Doc.heap[At(Doc.heap[Doc.root].children, 0)]) = MaxNodesInBlock \div 2
    /\ ChildCount(Doc.heap[At(Doc.heap[Doc.root].children, 1)]) = MaxNodesInBlock \div 2 + 1

\* The two assertions of TardisRangeToServerTip.
TardisFailures ==
    {"assert: std::is_sorted(m_edits)",
     "assert: it == m_edits.end() || (*it)->seq == refSeq.next()"}

\* The acknowledged queue of T holds every edit between the reference
\* sequence number of message m and m itself, the first of them the one
\* right after the reference.
BacklogContiguous(T, m) ==
    LET seqs == EditSeqs(T)
        r == m.referenceSequenceNumber
        later == {i \in 1..Len(seqs) : ULess(r, seqs[i])}
    IN /\ later # {} => seqs[SetMin(later)] = r + 1
       /\ \A s \in (r + 1)..(m.sequenceNumber - 1) : \E i \in later : seqs[i] = s
       /\ \A i \in later : i + 1 \in later \/ i = Len(seqs)
       /\ \A i \in later : i + 1 \in later => seqs[i + 1] = seqs[i] + 1
       /\ TardisRangeToServerTip(T, <<m.contents.pos1, m.contents.pos2>>, r, m.clientId).why = ""

BacklogStep ==
    (Running /\ router.kind = "multi" /\ lastOp'.op = "PumpMessages") =>
        \A c \in Clients :
            /\ trees'[c].failed \notin TardisFailures
            /\ \A k \in 1..Len(router.msgs) :
                  (/\ router.msgs[k].clientId # c
                   /\ AfterMessages(trees[c], router.msgs, k - 1).failed = ""
                   /\ AfterMessages(trees[c], router.msgs, k - 1).m_edits # <<>>)
                      => BacklogContiguous(AfterMessages(trees[c], router.msgs, k - 1),
                                           router.msgs[k])

\* C30: under a MultiClientRouter, for every interleaving of local Replace
\* calls and PumpMessages, whenever a client processes a remote message with
\* reference sequence number r and its acknowledged queue is not empty, the
\* first acknowledged edit with seq > r has seq r + 1 and no edit between r
\* and the message is missing from the queue, so the assertions of
\* TardisRangeToServerTip never fail.
BacklogContiguity == [][BacklogStep]_vars

BacklogWitness ==
    /\ Running
    /\ lastOp.op = "PumpMessages"
    /\ \A c \in Clients : trees[c].failed = ""
    /\ \E k \in 1..Len(delivered.msgs) :
          /\ delivered.msgs[k].referenceSequenceNumber >= MultiRouterFirstSeq
          /\ delivered.msgs[k].sequenceNumber > delivered.msgs[k].referenceSequenceNumber + 1
          /\ \E c \in Clients :
                /\ c # delivered.msgs[k].clientId
                /\ \E i \in 1..Len(trees[c].m_edits) :
                      trees[c].edits[trees[c].m_edits[i]].seq
                          = delivered.msgs[k].referenceSequenceNumber + 1

\* The two queues of T share no Edit and hold none twice; m_edits is strictly
\* increasing in seq and m_editsLocal in client sequence number.
EditLogShapeOf(T) ==
    /\ \A i \in 1..Len(T.m_edits) : \A j \in 1..Len(T.m_editsLocal) :
          T.m_edits[i] # T.m_editsLocal[j]
    /\ \A i, j \in 1..Len(T.m_edits) : i < j => T.m_edits[i] # T.m_edits[j]
    /\ \A i, j \in 1..Len(T.m_editsLocal) : i < j => T.m_editsLocal[i] # T.m_editsLocal[j]
    /\ \A e \in QueuedEdits(T) : e \in DOMAIN T.edits
    /\ \A e \in DOMAIN T.edits : e \in QueuedEdits(T)
    /\ \A i \in 2..Len(T.m_edits) :
          ULess(T.edits[T.m_edits[i - 1]].seq, T.edits[T.m_edits[i]].seq)
    /\ \A i \in 2..Len(T.m_editsLocal) :
          ULess(T.edits[T.m_editsLocal[i - 1]].seq, T.edits[T.m_editsLocal[i]].seq)
    /\ \A i \in 2..Len(T.m_editsLocal) : T.m_editsLocal[i - 1] < T.m_editsLocal[i]

RECURSIVE CpFromSegment(_, _)
CpFromSegment(T, node) ==
    IF node = 0 THEN 0
    ELSE (IF T.heap[node].index > 0
          THEN At(T.heap[T.heap[node].parent].lengths.lengths, T.heap[node].index - 1)
          ELSE 0)
         + CpFromSegment(T, T.heap[node].parent)

\* find(cp) of T returns a visible segment and an offset inside it that
\* CpFromSegment takes back to cp.
FindInverts(T, it, cp) ==
    /\ it.why = ""
    /\ it.seg # 0
    /\ T.heap[it.seg].isLeaf
    /\ ~T.heap[it.seg].isDead
    /\ ~IsRemoved(T, T.heap[it.seg])
    /\ 0 <= it.offset
    /\ it.offset < T.heap[it.seg].length
    /\ CpFromSegment(T, it.seg) + it.offset = cp

MaxFindCp == 6

\* The positions at which find is tried: all of them in a short document, the
\* first and last MaxFindCp of a long one.
FindPositions(T) ==
    {cp \in 0..(CpMac(T) - 1) : cp < MaxFindCp \/ cp >= CpMac(T) - MaxFindCp}

\* C32: in every reachable tree state, for every cp with 0 <= cp < CpMac,
\* find(cp) returns a visible segment s and an offset o with 0 <= o < s.length
\* and CpFromSegment(s) + o = cp; find(CpMac) returns the end iterator;
\* tombstoned and dead segments are never returned.
FindInvertsCpFromSegment ==
    \A c \in DOMAIN trees :
        trees[c].failed = "" =>
            /\ \A cp \in FindPositions(trees[c]) :
                  FindInverts(trees[c], find(trees[c], cp), cp)
            /\ find(trees[c], CpMac(trees[c])) = [why |-> "", seg |-> 0, offset |-> 0]

\* MergeNodeIterator::Next at `node`: the node it moves to (0 at the end),
\* what it returns and the assertion it fails.
NextOf(heap, node) ==
    IF node = 0 THEN [node |-> 0, ret |-> FALSE, why |-> ""]
    ELSE IF ~heap[node].isLeaf
    THEN IF ~(ChildCount(heap[node]) > 0)
         THEN [node |-> 0, ret |-> TRUE, why |-> "assert: block->ChildCount() > 0"]
         ELSE [node |-> At(heap[node].children, 0), ret |-> TRUE, why |-> ""]
    ELSE IF heap[WalkUp(heap, node)].parent = 0
         THEN [node |-> 0, ret |-> FALSE, why |-> ""]
         ELSE [node |-> MergeNodeIteratorNext(heap, node), ret |-> TRUE, why |-> ""]

\* The nodes under `node` in pre-order, children in slot order.
RECURSIVE PreOrder(_, _)
PreOrder(heap, node) ==
    IF heap[node].isLeaf THEN <<node>>
    ELSE <<node>> \o Flatten([i \in 1..ChildCount(heap[node]) |->
                                 PreOrder(heap, heap[node].children[i])],
                             1, ChildCount(heap[node]))

\* Repeated Next from the root of T visits the nodes of T in pre-order,
\* returning true at each step, and then returns false at the end: from each
\* node of the pre-order `pre` Next moves to the one after it.
WalkIsPreOrderOf(T, pre) ==
    /\ \A i \in 1..(Len(pre) - 1) :
          NextOf(T.heap, pre[i]) = [node |-> pre[i + 1], ret |-> TRUE, why |-> ""]
    /\ NextOf(T.heap, pre[Len(pre)]) = [node |-> 0, ret |-> FALSE, why |-> ""]
    /\ NextOf(T.heap, 0) = [node |-> 0, ret |-> FALSE, why |-> ""]

WalkIsPreOrder(T) == WalkIsPreOrderOf(T, PreOrder(T.heap, T.root))

PreOrderEverywhere ==
    \A c \in DOMAIN trees : trees[c].failed = "" => WalkIsPreOrder(trees[c])

\* Segment n of T is neither tombstoned nor dead.
IsVisibleSegment(T, n) == ~IsRemoved(T, T.heap[n]) /\ ~T.heap[n].isDead

\* In the leaves `leaves` of T, in traversal order, the segment `new` has
\* visible text of length cp on its left and the first visible segment at cp
\* directly on its right; at the end of the document it is the last leaf.
PlacedAt(T, leaves, new, cp, atEnd) ==
    \E k \in 1..Len(leaves) :
        /\ leaves[k] = new
        /\ Len(Flatten([i \in 1..(k - 1) |->
                           IF IsVisibleSegment(T, leaves[i])
                           THEN T.heap[leaves[i]].text ELSE <<>>], 1, k - 1)) = cp
        /\ IF atEnd THEN k = Len(leaves)
           ELSE k < Len(leaves) /\ IsVisibleSegment(T, leaves[k + 1])

\* A local insert at cp that returns puts its segment there.
InsertPlacedStep ==
    (/\ Running
     /\ lastOp'.op = "Replace"
     /\ lastOp'.dcp = 0
     /\ trees'[LoopbackClientId].failed = "") =>
        PlacedAt(trees'[LoopbackClientId],
                 EnumerateSegments(trees'[LoopbackClientId].heap, trees'[LoopbackClientId].root),
                 trees'[LoopbackClientId].edits[Doc.nextEdit].segmentsAdded[1],
                 lastOp'.cp, lastOp'.cp = CpMac(Doc))

\* C33: starting at the root, repeated MergeNodeIterator::Next visits every
\* node of the tree once in pre-order with children in slot order, returns
\* true for each step and false after the last node, leaving the iterator at
\* end; after a local insert at cp the new segment sits directly left of the
\* first visible segment at cp, to the right of the tombstoned segments there.
PreOrderTraversal == []PreOrderEverywhere /\ [][InsertPlacedStep]_vars

(***************************************************************************)
(* TPartialLengths on its own (PartialLengths.h): one vector, and the      *)
(* operations the tree applies to it                                       *)
(***************************************************************************)
MaxLengthsCount == 3

MaxColumn == 2

MaxLengthsOps == 2

\* Split: the upper half goes to `other`, rebased on the entry before it;
\* neither count is written.
PLSplit(pl, other) ==
    [this |-> [pl EXCEPT !.lengths =
                  [i \in 1..BlockSize |->
                      IF i <= BlockSize \div 2 THEN pl.lengths[i] ELSE lengthNil]],
     other |-> [other EXCEPT !.lengths =
                  [i \in 1..BlockSize |->
                      IF i <= BlockSize \div 2
                      THEN pl.lengths[BlockSize \div 2 + i] - At(pl.lengths, BlockSize \div 2 - 1)
                      ELSE lengthNil]]]

\* CheckInvariants: the entries are sorted, the first count of them are not
\* Nil and the others are.
PLCheckInvariants(pl) ==
    /\ \A i \in 2..BlockSize : ~ULess(pl.lengths[i], pl.lengths[i - 1])
    /\ \A i \in 1..BlockSize : (i <= pl.count) = (pl.lengths[i] # lengthNil)

\* The vectors with up to MaxLengthsCount columns of up to MaxColumn
\* characters each.
RECURSIVE ColumnLists(_)
ColumnLists(n) ==
    IF n = 0 THEN {<<>>}
    ELSE LET shorter == ColumnLists(n - 1)
         IN shorter \cup {Append(cols, w) : cols \in {c \in shorter : Len(c) = n - 1},
                                            w \in 0..MaxColumn}

\* The full vectors: MaxNodesInBlock columns of a characters each, those
\* after the first k of them b characters longer.
FullColumnLists ==
    {[i \in 1..BlockSize |-> a + (IF i > k THEN b ELSE 0)] :
        a \in 0..MaxColumn, b \in 0..MaxColumn,
        k \in {0, BlockSize \div 2 - 1, BlockSize \div 2, BlockSize - 1}}

LengthsInputs ==
    {LengthsFromRange(PrefixSums(cols, 0)) :
        cols \in (ColumnLists(MaxLengthsCount) \ {<<>>}) \cup FullColumnLists}

NoLengthsOp == [op |-> "init", index |-> 0, length |-> 0, result |-> 0]

LengthsInit ==
    /\ trees = <<>>
    /\ router = [kind |-> "none"]
    /\ pending = <<>>
    /\ base = <<>>
    /\ delivered = <<>>
    /\ refDoc = <<>>
    /\ nOps = 0
    /\ lastOp = NoLengthsOp
    /\ probe \in {[pl |-> pl, before |-> pl, other |-> EmptyLengths] : pl \in LengthsInputs}

\* One operation on the vector: probe.before keeps the vector it was applied to.
LengthsOp(op, index, length, pl1, other1, result) ==
    /\ nOps < MaxLengthsOps
    /\ nOps' = nOps + 1
    /\ probe' = [pl |-> pl1, before |-> probe.pl, other |-> other1]
    /\ lastOp' = [op |-> op, index |-> index, length |-> length, result |-> result]
    /\ UNCHANGED <<trees, router, pending, base, delivered, refDoc>>

LengthsFind(offset) ==
    /\ probe.pl.count > 0
    /\ offset \in 0..TotalLength(probe.pl)
    /\ LengthsOp("Find", 0, offset, probe.pl, probe.other, PLFind(probe.pl, offset))

LengthsInsertColumn(index) ==
    /\ probe.pl.count < BlockSize
    /\ index \in 0..probe.pl.count
    /\ LengthsOp("InsertColumn", index, 0, InsertColumn(probe.pl, index), probe.other, 0)

\* The length of column index of the vector.
ColumnLength(pl, index) ==
    At(pl.lengths, index) - (IF index = 0 THEN 0 ELSE At(pl.lengths, index - 1))

\* Update as adopt issues it (a new segment's length) and as tombstoning does
\* (minus the length of the column).
LengthsUpdate(index, length) ==
    /\ index \in 0..(probe.pl.count - 1)
    /\ length \in (1..MaxColumn) \cup {-ColumnLength(probe.pl, index)}
    /\ LengthsOp("Update", index, length, PLUpdate(probe.pl, index, length), probe.other, 0)

\* SplitColumn as adopt issues it after splitAt: the tail of the column.
LengthsSplitColumn(index, length) ==
    /\ probe.pl.count < BlockSize
    /\ index \in 0..(probe.pl.count - 1)
    /\ length \in 1..(ColumnLength(probe.pl, index) - 1)
    /\ LengthsOp("SplitColumn", index, length, SplitColumn(probe.pl, index, length),
                 probe.other, 0)

LengthsSplit ==
    /\ probe.pl.count = BlockSize
    /\ LengthsOp("Split", 0, 0, PLSplit(probe.pl, EmptyLengths).this,
                 PLSplit(probe.pl, EmptyLengths).other, 0)

LengthsNext ==
    \/ \E offset \in 0..(BlockSize * 2 * MaxColumn) : LengthsFind(offset)
    \/ \E index \in 0..MaxLengthsCount + MaxLengthsOps : LengthsInsertColumn(index)
    \/ \E index \in 0..MaxLengthsCount + MaxLengthsOps :
          \E length \in (-2 * MaxColumn)..MaxColumn : LengthsUpdate(index, length)
    \/ \E index \in 0..MaxLengthsCount + MaxLengthsOps :
          \E length \in 1..(2 * MaxColumn) : LengthsSplitColumn(index, length)
    \/ LengthsSplit

SpecLengths == LengthsInit /\ [][LengthsNext]_vars

\* Find(offset) on a vector with count entries and total L[count - 1]: below
\* the total the smallest index whose entry exceeds the offset, which is a
\* column that is not empty, with the offset rebased on the entry to its
\* left; at the total, (count, 0).
FindResultOf(pl, offset, res) ==
    /\ res.ok
    /\ IF offset < TotalLength(pl)
       THEN /\ res.index \in 0..(pl.count - 1)
            /\ offset < At(pl.lengths, res.index)
            /\ \A i \in 0..(res.index - 1) : ~(offset < At(pl.lengths, i))
            /\ res.offset = IF res.index = 0 THEN offset
                            ELSE offset - At(pl.lengths, res.index - 1)
            /\ ColumnLength(pl, res.index) > 0
       ELSE /\ res.index = pl.count
            /\ res.offset = 0

\* C34: for a vector with count present entries and total = L[count - 1],
\* Find(offset) with 0 <= offset < total returns (i, r) where i is the
\* smallest index with offset < L[i], i < count, and r = offset - L[i - 1]
\* (r = offset when i = 0), so a child of zero visible length is never
\* selected; Find(total) returns (count, 0).
FindSmallestAbove ==
    (lastOp.op = "Find" /\ PLCheckInvariants(probe.before)) =>
        FindResultOf(probe.before, lastOp.length, lastOp.result)

FindWitness ==
    /\ lastOp.op = "Find"
    /\ PLCheckInvariants(probe.before)
    /\ probe.before.count = MaxLengthsCount
    /\ ColumnLength(probe.before, 1) = 0
    /\ lastOp.length = At(probe.before.lengths, 0)
    /\ lastOp.length < TotalLength(probe.before)
    /\ lastOp.result = [ok |-> TRUE, index |-> 2, offset |-> 0]

\* InsertColumn(i) gave a new column equal to L[i - 1] (0 when i = 0) with the
\* later columns shifted right; SplitColumn(i, len) gave L'[i] = L[i] - len
\* and L'[i + 1] = L[i].
ColumnOpsAsStated ==
    LET old == probe.before
        new == probe.pl
        i == lastOp.index
    IN /\ lastOp.op \in {"InsertColumn", "SplitColumn"} =>
             /\ new.count = old.count + 1
             /\ PLCheckInvariants(old) => PLCheckInvariants(new)
       /\ lastOp.op = "InsertColumn" =>
             /\ At(new.lengths, i) = (IF i = 0 THEN 0 ELSE At(old.lengths, i - 1))
             /\ \A k \in 0..(BlockSize - 1) :
                   /\ k < i => At(new.lengths, k) = At(old.lengths, k)
                   /\ k > i => At(new.lengths, k) = At(old.lengths, k - 1)
       /\ lastOp.op = "SplitColumn" =>
             /\ At(new.lengths, i) = At(old.lengths, i) - lastOp.length
             /\ At(new.lengths, i + 1) = At(old.lengths, i)
       /\ lastOp.op = "Update" =>
             (PLCheckInvariants(old) => PLCheckInvariants(new))

\* The partial lengths of every block of T satisfy CheckInvariants, and
\* their count is the number of children the block holds.
LengthsWellFormedOf(T) ==
    \A b \in Blocks(T) :
        /\ PLCheckInvariants(T.heap[b].lengths)
        /\ T.heap[b].lengths.count =
              Cardinality({i \in 1..MaxNodesInBlock : T.heap[b].children[i] # 0})

\* C35: after any sequence of InsertColumn, Update, SplitColumn and Split
\* applied by the tree, every vector satisfies CheckInvariants (entries
\* [0, count) are not Nil and do not decrease, entries [count, B) are Nil) and
\* its count is the owning block's number of children.
LengthsWellFormed ==
    \A c \in DOMAIN trees : trees[c].failed = "" => LengthsWellFormedOf(trees[c])

\* Tree T1 is tree T after an acknowledgement that readers cannot see: CpMac,
\* the decoded document, every block's partial lengths, the outbox and the
\* adjustment of every edit that is left are the same.
SameToReaders(T, T1) ==
    /\ CpMac(T1) = CpMac(T)
    /\ AssertDoc(T1) = AssertDoc(T)
    /\ Blocks(T1) = Blocks(T)
    /\ \A b \in Blocks(T) : T1.heap[b].lengths = T.heap[b].lengths
    /\ T1.outbox = T.outbox
    /\ \A e \in DOMAIN T1.edits :
          e \in DOMAIN T.edits /\ T1.edits[e].adjustment = T.edits[e].adjustment

\* What OnMessageReceived(msg) may do to tree T: nothing a reader sees when
\* msg carries the local client id, and no Send and no new pending-local edit
\* when it is remote.
ReceivedQuietly(T, msg, T1) ==
    (T.failed = "" /\ T1.failed = "") =>
        IF msg.clientId = T.clientLocal
        THEN SameToReaders(T, T1)
        ELSE T1.outbox = T.outbox /\ T1.m_editsLocal = T.m_editsLocal

\* C36: processing a sequenced message that carries the local client id,
\* the settlement pass included, changes neither CpMac nor the decoded
\* document nor any block's partial lengths, sends no message and alters the
\* adjustment of no edit; applying a remote message never sends a message and
\* never adds to the pending-local queue.
AcknowledgementInvisible ==
    /\ (router.kind = "loopback" /\ router.queue # <<>>) =>
          ReceivedQuietly(Doc, Head(router.queue), OnMessageReceived(Doc, Head(router.queue)))
    /\ router.kind = "multi" =>
          \A c \in Clients : \A k \in 1..Len(router.msgs) :
              ReceivedQuietly(AfterMessages(trees[c], router.msgs, k - 1), router.msgs[k],
                              AfterMessages(trees[c], router.msgs, k))

AcknowledgementWitness ==
    /\ router.kind = "loopback"
    /\ router.queue # <<>>
    /\ Doc.failed = ""
    /\ OnMessageReceived(Doc, Head(router.queue)).failed = ""
    /\ Head(router.queue).clientId = Doc.clientLocal
    /\ DeadSegmentsOf(OnMessageReceived(Doc, Head(router.queue))) # DeadSegmentsOf(Doc)
    /\ Len(OnMessageReceived(Doc, Head(router.queue)).m_edits) = Len(Doc.m_edits)

\* CpAdjustCp does not decrease in the position, the adjustment and the
\* stickiness being fixed.
AdjustIsMonotone ==
    \A p \in 0..MaxAdjCp : \A q \in p..MaxAdjCp :
        \A c \in 0..MaxAdjCp : \A d \in (-MaxAdjDcp)..MaxAdjDcp :
            \A stick \in {"Left", "Right"} :
                CpAdjustCp(p, [cp |-> c, dcp |-> d], stick)
                    <= CpAdjustCp(q, [cp |-> c, dcp |-> d], stick)

\* Remote message m arrives at tree T with ordered endpoints at the server
\* tip and in local coordinates, and Replace does not fail assert(dcp >= 0).
RangeStaysOrdered(T, m, T1) ==
    LET tip == TardisRangeToServerTip(T, <<m.contents.pos1, m.contents.pos2>>,
                                      m.referenceSequenceNumber, m.clientId)
    IN /\ tip.why = "" =>
             /\ tip.cps[1] <= tip.cps[2]
             /\ TardisServerRangeToLocal(T, tip.cps)[1]
                    <= TardisServerRangeToLocal(T, tip.cps)[2]
       /\ T1.failed # "assert: dcp >= 0"

RangeOrderedStep ==
    (Running /\ lastOp'.op = "PumpMessages") =>
        \A c \in Clients : \A k \in 1..Len(router.msgs) :
            (/\ router.msgs[k].clientId # c
             /\ router.msgs[k].contents.pos1 <= router.msgs[k].contents.pos2
             /\ AfterMessages(trees[c], router.msgs, k - 1).failed = "")
                => RangeStaysOrdered(AfterMessages(trees[c], router.msgs, k - 1),
                                     router.msgs[k],
                                     AfterMessages(trees[c], router.msgs, k))

\* C37: CpAdjustCp is monotone non-decreasing in the position for every
\* fixed adjustment and stickiness; so for every remote insert with
\* pos1 <= pos2 the endpoints after TardisRangeToServerTip and
\* TardisServerRangeToLocal satisfy cps[0] <= cps[1], the dcp handed to
\* Replace is >= 0 and its assert(dcp >= 0) never fails on a remote message.
TranslatedRangesOrdered == [][AdjustIsMonotone /\ RangeOrderedStep]_vars

TranslatedRangesWitness ==
    /\ Running
    /\ lastOp.op = "PumpMessages"
    /\ Len(delivered.ops) = 2
    /\ delivered.ops[1].dcp > 0
    /\ delivered.ops[2].client # delivered.ops[1].client
    /\ delivered.ops[2].dcp = 0
    /\ delivered.ops[2].cp <= delivered.ops[1].cp
    /\ \A c, d \in Clients : delivered.base[c] = delivered.base[d]

(***************************************************************************)
(* Many settled removals under one root before RunMaintenance: a document  *)
(* reloaded from segments on an immediate SimpleLoopbackRouter, edits that *)
(* each replace a run of whole segments, and the edit after them, whose    *)
(* acknowledgement settles the last of them                                *)
(***************************************************************************)
\* The largest number of segments loaded.
MaxDeadLoad == 133

\* The numbers of segments loaded.
DeadLoadSizes == {MaxDeadLoad - 1, MaxDeadLoad}

\* The largest number of segments one edit removes, and how many fewer are
\* tried.
MaxDeadChunk == 22

MaxDeadSpare == 1

DeadChunks == (MaxDeadChunk - MaxDeadSpare)..MaxDeadChunk

\* The edits that remove segments.
MaxDeadRemovals == 6

\* doc.Replace(cp, k * TextLen, "a") with cp behind the texts put in by the
\* removals before: the next k loaded segments replaced by "a".
DoRemoveSegments(k) ==
    /\ Running
    /\ nOps \in 1..MaxDeadRemovals
    /\ CpMac(Doc) >= (nOps - 1) + k * TextLen
    /\ LET Issued(sent) ==
               /\ trees' = [trees EXCEPT ![LoopbackClientId] = sent.T]
               /\ router' = sent.router
       IN Issued(LoopbackSendOp(router, Replace(Doc, nOps - 1, k * TextLen, AppendText, 0)))
    /\ refDoc' = StringReplace(refDoc, nOps - 1, k * TextLen, AppendText)
    /\ nOps' = nOps + 1
    /\ lastOp' = [op |-> "Replace", cp |-> nOps - 1, dcp |-> k * TextLen]
    /\ pending' = Append(pending, "Replace")
    /\ UNCHANGED <<base, delivered, probe>>

\* doc.Replace(doc.CpMac(), 0, "a")
DoAppendAfter ==
    /\ Running
    /\ nOps = MaxDeadRemovals + 1
    /\ LET Issued(sent) ==
               /\ trees' = [trees EXCEPT ![LoopbackClientId] = sent.T]
               /\ router' = sent.router
       IN Issued(LoopbackSendOp(router, Replace(Doc, CpMac(Doc), 0, AppendText, 0)))
    /\ refDoc' = refDoc \o AppendText
    /\ nOps' = nOps + 1
    /\ lastOp' = [op |-> "Replace", cp |-> CpMac(Doc), dcp |-> 0]
    /\ pending' = Append(pending, "Replace")
    /\ UNCHANGED <<base, delivered, probe>>

DeadNext ==
    \/ \E n \in DeadLoadSizes : DoReload(n)
    \/ \E k \in DeadChunks : DoRemoveSegments(k)
    \/ DoAppendAfter

SpecDead == LoopInit /\ [][DeadNext]_vars

\* C38: for every block the stored cDeadSegments equals the number of isDead
\* segments in the block's subtree for any number of settled removals; it
\* never wraps or goes negative when a subtree accumulates more than 127
\* dead segments before maintenance runs.
DeadCounterExact ==
    Running =>
        \A b \in Blocks(Doc) :
            /\ Doc.heap[b].stats.cDeadSegments >= 0
            /\ Doc.heap[b].stats.cDeadSegments = Cardinality(DeadSegments(Doc, b))

(***************************************************************************)
(* PieceTable (PieceTable.h): m_rgcp holds the CP of each segment and then *)
(* cpMac, m_rgseg the segments. A segment is its text and its length.      *)
(***************************************************************************)
\* PieceTable(): m_rgcp.push_back(0)
NewPieceTable == [m_rgcp |-> <<0>>, m_rgseg |-> <<>>, failed |-> ""]

PtFail(pt, why) == IF pt.failed = "" THEN [pt EXCEPT !.failed = why] ELSE pt

\* std::vector::insert(begin() + i, v) and erase(begin() + i, begin() + j)
VecInsert(v, i, x) == SubSeqTo(v, i) \o <<x>> \o SubSeqFrom(v, i)

VecErase(v, i, j) == SubSeqTo(v, i) \o SubSeqFrom(v, j)

\* std::lower_bound over arr[first, first + len): the first index whose
\* element is not less than val.
RECURSIVE LowerBound(_, _, _, _)
LowerBound(arr, val, first, len) ==
    IF len <= 0
    THEN first
    ELSE LET half == len \div 2
             mid == first + half
         IN IF At(arr, mid) < val
            THEN LowerBound(arr, val, mid + 1, len - half - 1)
            ELSE LowerBound(arr, val, first, half)

IMac(pt) == Len(pt.m_rgseg)

PtCpMac(pt) == pt.m_rgcp[Len(pt.m_rgcp)]

\* IFindCp without the step back from the next element.
IFindCpNoStepBack(pt, cp) == LowerBound(pt.m_rgcp, cp, 0, Len(pt.m_rgcp))

IFindCp(pt, cp) ==
    LET it == LowerBound(pt.m_rgcp, cp, 0, Len(pt.m_rgcp))
    IN IF it = Len(pt.m_rgcp) \/ At(pt.m_rgcp, it) # cp
       THEN it - 1
       ELSE it

\* ISplitCp: [pt, i]; i is meaningful when pt has not failed.
ISplitCp(pt, cp) ==
    LET i == IFindCp(pt, cp)
    IN IF pt.failed # "" THEN [pt |-> pt, i |-> 0]
       ELSE IF ~(i >= 0 /\ i < Len(pt.m_rgcp))
       THEN [pt |-> PtFail(pt, "assert: i < m_rgcp.size()"), i |-> 0]
       ELSE IF At(pt.m_rgcp, i) = cp
       THEN [pt |-> pt, i |-> i]
       ELSE IF ~(At(pt.m_rgcp, i) < cp)
       THEN [pt |-> PtFail(pt, "assert: cpBase < cp"), i |-> 0]
       ELSE IF i >= IMac(pt)
       THEN [pt |-> PtFail(pt, "m_rgseg[i] out of range"), i |-> 0]
       ELSE LET pos == cp - At(pt.m_rgcp, i)
                old == At(pt.m_rgseg, i)
                segNew == [text |-> SubSeqFrom(old.text, pos),
                           length |-> Len(old.text) - pos]
                kept == [text |-> SubSeqTo(old.text, pos), length |-> pos]
            IN [pt |-> [pt EXCEPT !.m_rgseg = VecInsert(SetAt(pt.m_rgseg, i, kept),
                                                         i + 1, segNew),
                                  !.m_rgcp = VecInsert(pt.m_rgcp, i + 1, cp)],
                i |-> i + 1]

AdjustCps(pt, i, dcp) ==
    [pt EXCEPT !.m_rgcp = [k \in 1..Len(pt.m_rgcp) |->
                              IF k - 1 >= i THEN pt.m_rgcp[k] + dcp ELSE pt.m_rgcp[k]]]

PtCheckInvariants(pt) ==
    /\ At(pt.m_rgcp, 0) = 0
    /\ Len(pt.m_rgseg) = Len(pt.m_rgcp) - 1
    /\ \A k \in 1..(Len(pt.m_rgcp) - 1) : pt.m_rgcp[k] <= pt.m_rgcp[k + 1]
    /\ \A i \in 0..(Len(pt.m_rgseg) - 1) :
          i + 1 < Len(pt.m_rgcp)
              => At(pt.m_rgcp, i + 1) - At(pt.m_rgcp, i) = At(pt.m_rgseg, i).length

\* Fetch: [run, why]; why names the assertion that failed.
PtFetch(pt, cp) ==
    IF cp >= PtCpMac(pt)
    THEN [run |-> <<>>, why |-> IF cp = PtCpMac(pt) THEN "" ELSE "assert: cp == CpMac()"]
    ELSE LET i == IFindCp(pt, cp)
         IN IF ~(i >= 0 /\ i < Len(pt.m_rgcp))
            THEN [run |-> <<>>, why |-> "assert: i < m_rgcp.size()"]
            ELSE IF i >= IMac(pt) \/ cp - At(pt.m_rgcp, i) < 0
                    \/ cp - At(pt.m_rgcp, i) > Len(At(pt.m_rgseg, i).text)
            THEN [run |-> <<>>, why |-> "out of range in Fetch"]
            ELSE LET text == SubSeqFrom(At(pt.m_rgseg, i).text, cp - At(pt.m_rgcp, i))
                 IN [run |-> text,
                     why |-> IF Len(text) > 0 THEN "" ELSE "assert: text.size() > 0"]

\* Replace once both positions are on segment boundaries i1 and i2.
PtReplaceBetween(pt, i1, i2, cp, dcp, text) ==
    LET seg == [text |-> text, length |-> Len(text)]
    IN IF pt.failed # "" THEN pt
       ELSE IF i1 < i2 /\ Len(text) > 0
       THEN IF At(pt.m_rgcp, i1) # cp
            THEN PtFail(pt, "assert: m_rgcp[i1] == cp")
            ELSE AdjustCps([pt EXCEPT !.m_rgcp = VecErase(@, i1 + 1, i2),
                                      !.m_rgseg = SetAt(VecErase(@, i1 + 1, i2), i1, seg)],
                           i1 + 1, Len(text) - dcp)
       ELSE IF i1 < i2
       THEN AdjustCps([pt EXCEPT !.m_rgcp = VecErase(@, i1, i2),
                                 !.m_rgseg = VecErase(@, i1, i2)],
                      i1, -dcp)
       ELSE IF Len(text) > 0
       THEN AdjustCps([pt EXCEPT !.m_rgcp = VecInsert(@, i1, cp),
                                 !.m_rgseg = VecInsert(@, i1, seg)],
                      i1 + 1, Len(text))
       ELSE pt

PtReplaceFrom(r1, cp, dcp, text) ==
    IF dcp = 0
    THEN PtReplaceBetween(r1.pt, r1.i, r1.i, cp, dcp, text)
    ELSE PtReplaceBetween(ISplitCp(r1.pt, cp + dcp).pt, r1.i, ISplitCp(r1.pt, cp + dcp).i,
                          cp, dcp, text)

PtReplace(pt, cp, dcp, text) == PtReplaceFrom(ISplitCp(pt, cp), cp, dcp, text)

PtReloadFromSegments(texts) ==
    [m_rgcp |-> <<0>> \o [i \in 1..Len(texts) |-> Len(Flatten(texts, 1, i))],
     m_rgseg |-> [i \in 1..Len(texts) |-> [text |-> texts[i], length |-> Len(texts[i])]],
     failed |-> ""]

\* The Replace calls of a run, the longest text of a call and the longest
\* range it replaces, and the most segments a table is reloaded from.
MaxPieceOps == 3

MaxPieceText == 2

MaxPieceDcp == 2

MaxPieceLoad == 2

PieceInit ==
    /\ trees = <<>>
    /\ router = [kind |-> "none"]
    /\ pending = <<>>
    /\ base = <<>>
    /\ delivered = <<>>
    /\ refDoc = <<>>
    /\ nOps = 0
    /\ lastOp = [op |-> "init"]
    /\ probe = NewPieceTable

\* pt.ReloadFromSegments(segments) on a new table.
PieceReload(n) ==
    /\ nOps = 0
    /\ lastOp.op = "init"
    /\ probe' = PtReloadFromSegments(LoadTexts(n))
    /\ refDoc' = Flatten(LoadTexts(n), 1, n)
    /\ lastOp' = [op |-> "ReloadFromSegments", n |-> n]
    /\ UNCHANGED <<trees, router, pending, base, delivered, nOps>>

\* pt.Replace(cp, dcp, text) with 0 <= cp <= cp + dcp <= CpMac.
PieceReplace(cp, dcp, len) ==
    /\ probe.failed = ""
    /\ nOps < MaxPieceOps
    /\ probe' = PtReplace(probe, cp, dcp, TextOf(nOps + 1, len))
    /\ refDoc' = StringReplace(refDoc, cp, dcp, TextOf(nOps + 1, len))
    /\ nOps' = nOps + 1
    /\ lastOp' = [op |-> "Replace", cp |-> cp, dcp |-> dcp, len |-> len,
                  pieces |-> IMac(probe)]
    /\ UNCHANGED <<trees, router, pending, base, delivered>>

\* pt.Fetch(cp)
PieceFetch(cp) ==
    /\ probe.failed = ""
    /\ lastOp.op # "Fetch"
    /\ lastOp' = [op |-> "Fetch", cp |-> cp, run |-> PtFetch(probe, cp).run,
                  why |-> PtFetch(probe, cp).why]
    /\ UNCHANGED <<trees, router, pending, base, delivered, refDoc, nOps, probe>>

PieceNext ==
    \/ \E n \in 1..MaxPieceLoad : PieceReload(n)
    \/ \E cp \in 0..PtCpMac(probe) :
          \E dcp \in 0..Min2(MaxPieceDcp, PtCpMac(probe) - cp) :
              \E len \in 0..MaxPieceText : PieceReplace(cp, dcp, len)
    \/ \E cp \in 0..PtCpMac(probe) : PieceFetch(cp)

SpecPiece == PieceInit /\ [][PieceNext]_vars

\* The runs of the Fetch walk from cp to CpMac, concatenated.
RECURSIVE PtFetchWalk(_, _)
PtFetchWalk(pt, cp) ==
    IF cp >= PtCpMac(pt) \/ PtFetch(pt, cp).run = <<>> THEN <<>>
    ELSE PtFetch(pt, cp).run \o PtFetchWalk(pt, cp + Len(PtFetch(pt, cp).run))

\* The end of the piece that holds cp: the first boundary behind cp.
PieceEnd(pt, cp) == SetMin({pt.m_rgcp[k] : k \in 1..Len(pt.m_rgcp)} \ (0..cp))

\* C39: after any sequence of PieceTable::Replace(cp, dcp, text) calls with
\* 0 <= cp <= cp+dcp <= CpMac the invariants of the piece table hold (the
\* boundary array starts at 0, is sorted, has one more entry than there are
\* segments, consecutive differences equal the segment lengths), the
\* concatenated Fetch walk equals the string reference, Fetch(cp) inside a
\* piece returns the remainder of that piece, and Fetch(CpMac) returns the
\* empty run.
PieceTableReference ==
    /\ probe.failed = ""
    /\ PtCheckInvariants(probe)
    /\ PtCpMac(probe) = Len(refDoc)
    /\ PtFetchWalk(probe, 0) = refDoc
    /\ \A cp \in 0..(PtCpMac(probe) - 1) :
          /\ PtFetch(probe, cp).why = ""
          /\ PtFetch(probe, cp).run = SubSeq(refDoc, cp + 1, PieceEnd(probe, cp))
    /\ PtFetch(probe, PtCpMac(probe)) = [run |-> <<>>, why |-> ""]
    /\ lastOp.op = "Fetch" =>
          /\ lastOp.why = ""
          /\ lastOp.cp < PtCpMac(probe) =>
                lastOp.run = SubSeq(refDoc, lastOp.cp + 1, PieceEnd(probe, lastOp.cp))
          /\ lastOp.cp = PtCpMac(probe) => lastOp.run = <<>>

\* A Replace that took out a range ending inside a piece and put a text in
\* its place, in a table of several pieces.
PieceTableWitness ==
    /\ lastOp.op = "Replace"
    /\ nOps = MaxPieceOps
    /\ lastOp.dcp > 0
    /\ lastOp.len > 0
    /\ lastOp.cp > 0
    /\ lastOp.pieces >= 2
    /\ IMac(probe) >= 3
    /\ probe.failed = ""

\* The entries Split is to leave in this vector and in the other, for the
\* entries L of the full vector before.
SplitEntries(L, this, other) ==
    /\ \A i \in 0..(BlockSize \div 2 - 1) :
          /\ At(this.lengths, i) = At(L.lengths, i)
          /\ At(other.lengths, i)
                = At(L.lengths, BlockSize \div 2 + i) - At(L.lengths, BlockSize \div 2 - 1)
    /\ \A i \in (BlockSize \div 2)..(BlockSize - 1) :
          /\ At(this.lengths, i) = lengthNil
          /\ At(other.lengths, i) = lengthNil

\* C40: PartialLengths.Split on a full vector (count = B) with entries L
\* leaves this vector with count B/2, L[0..B/2) unchanged and the upper half
\* Nil, the other vector with count B/2, entries L[B/2 + j] - L[B/2 - 1] and
\* its upper half Nil; both satisfy CheckInvariants, and
\* TotalLength(this) + TotalLength(other) is the total before.
SplitAsStated ==
    lastOp.op = "Split" =>
        /\ SplitEntries(probe.before, probe.pl, probe.other)
        /\ probe.pl.count = BlockSize \div 2
        /\ probe.other.count = BlockSize \div 2
        /\ PLCheckInvariants(probe.pl)
        /\ PLCheckInvariants(probe.other)
        /\ TotalLength(probe.pl) + TotalLength(probe.other) = TotalLength(probe.before)

====
